---- MODULE Spec2Model ----
(***************************************************************************)
(* Auto_Scheduler: the flexible-event placement engine.                    *)
(*                                                                         *)
(* Instants are whole minutes counted from the midnight that starts the    *)
(* modelled day; a day has MinsInDay minutes and the optimiser divides it  *)
(* into slots of Precision minutes.                                        *)
(*                                                                         *)
(* SpecFinder  : the FlexSlotFinder object driven with arbitrary inputs.   *)
(* Spec        : the request handlers over the event store and calendar.   *)
(***************************************************************************)
EXTENDS Integers, Sequences, FiniteSets, TLC

\* ------------------------------------------------------------------------
\* Bounds
\* ------------------------------------------------------------------------
MaxFinderTime == 3
MaxFinderEvents == 2
MaxFinderCalls == 2
MaxNegDuration == 1

\* request handlers: the store holds at most MaxRows rows
MaxRows == 3

\* SpecDatabase: at most this many rows are ever inserted
MaxDbInserts == 3

\* instants (minutes after midnight) and durations (minutes) a request may
\* carry: slot boundaries 0 and 15, and 5, which is on no slot boundary
Times == {0, 5, 15}
Durations == {0, 5, 15}
Summaries == {"a"}

\* FlexEventOptimiser.__init__
Precision == 15
MinsInDay == 1440
num_slots == MinsInDay \div Precision

FinderTimes == 0..MaxFinderTime
FinderDurations == (0 - MaxNegDuration)..(MaxFinderTime + 1)

\* occupied intervals handed to the finder: events with start_dt < end_dt
FinderEvent == {ev \in [start_dt : FinderTimes, end_dt : FinderTimes] : ev.start_dt < ev.end_dt}

RECURSIVE SeqsUpTo(_, _)
SeqsUpTo(S, n) ==
    IF n = 0 THEN {<<>>}
    ELSE LET shorter == SeqsUpTo(S, n - 1)
         IN  shorter \cup {Append(sq, x) : sq \in {q \in shorter : Len(q) = n - 1}, x \in S}

FinderEventLists == SeqsUpTo(FinderEvent, MaxFinderEvents)

\* ------------------------------------------------------------------------
\* State
\* ------------------------------------------------------------------------
VARIABLES
    slot_finder,   \* the FlexSlotFinder object, or NoFinder before construction
    sf_op,         \* last operation on the finder: "none", "init", "find",
                   \* "idle" once the caller has consumed the returned tuple
    sf_args,       \* arguments of the last constructor call and, during a
                   \* find_valid_slot call, the list that was passed to it
    sf_raised,     \* TRUE iff the last constructor call raised ValueError
    sf_events,     \* events argument of the last find_valid_slot call
    sf_ret,        \* tuple returned by the last find_valid_slot call
    sf_calls,      \* number of find_valid_slot calls made on the finder
    db,            \* rows of the events table of the store
    next_id,       \* next AUTOINCREMENT id of the events table
    gc,            \* events of the Google calendar
    next_gid,      \* next event id the calendar hands out
    pc,            \* position of the request handler that is running
    req,           \* the request being handled
    new_event,     \* event object built by the handler, or NoEvent
    outcome,       \* how the handler ended: "none", "ok", "ValueError", "SystemExit", "TypeError", "KeyError", "PulpError"
    opt_before,    \* events list read by run_ILP_optimiser
    opt_events,    \* the same event objects after decoding (list returned)
    opt_status,    \* LpStatus the solver reported in the last pass, or "none"
    opt_objective, \* value of the objective in the last pass, -1 without one
    opt_written,   \* google ids for which the last pass called EventManager.edit_event
    opt_x,         \* per event of the last pass, the slots t with x[i, t] = 1 in the solution
    opt_o,         \* the pairs that own a variable o[i, j], and those with o[i, j] = 1
    opt_io,        \* the store and calendar requests of the last pass and its solve, in order
    submit,        \* db_id and google_id held by a submit_event that is under way
    db_call        \* last direct call of a Database method, or NoCall

finder_vars == <<slot_finder, sf_op, sf_args, sf_raised, sf_events, sf_ret, sf_calls>>

store_vars == <<db, next_id, gc, next_gid>>

handler_vars == <<pc, req, new_event, outcome, opt_before, opt_events,
                  opt_status, opt_objective, opt_written, opt_x, opt_o, opt_io,
          submit, db_call>>

vars == <<slot_finder, sf_op, sf_args, sf_raised, sf_events, sf_ret, sf_calls,
          db, next_id, gc, next_gid, pc, req, new_event, outcome, opt_before, opt_events,
          opt_status, opt_objective, opt_written, opt_x, opt_o, opt_io,
          submit, db_call>>

NoFinder == [kind |-> "NoFinder"]
NoArgs == [kind |-> "NoArgs"]
NoTuple == <<>>
NoCall == [op |-> "none"]
NoIndicators == [pairs |-> {}, ones |-> {}]
NoSubmit == [db_id |-> 0, google_id |-> 0]

\* ------------------------------------------------------------------------
\* FlexSlotFinder
\* ------------------------------------------------------------------------

\* variant: a duration equal to the window length is refused as well
FlexSlotFinderRaises_Strict(valid_start_dt, valid_end_dt, duration) ==
    \/ ~(valid_start_dt < valid_end_dt)
    \/ (valid_end_dt - valid_start_dt) <= duration

\* FlexSlotFinder.__init__ : the two checks that raise ValueError
FlexSlotFinderRaises(valid_start_dt, valid_end_dt, duration) ==
    \/ ~(valid_start_dt < valid_end_dt)
    \/ (valid_end_dt - valid_start_dt) < duration

\* FlexSlotFinder.__init__ : the object after a successful construction
FlexSlotFinderNew(valid_start_dt, valid_end_dt, duration) ==
    [valid_start_dt |-> valid_start_dt,
     valid_end_dt   |-> valid_end_dt,
     duration       |-> duration,
     no_clashes     |-> FALSE,
     start_dt       |-> -1,
     end_dt         |-> -1]

\* loop body of find_valid_slot for index i (0-based as in the source)
prev_event_end(f, events, i) ==
    IF i = 0 THEN f.valid_start_dt ELSE events[i].end_dt

next_event_start(f, events, i) ==
    IF i = Len(events) THEN f.valid_end_dt ELSE events[i + 1].start_dt

candidate_start_dt(f, events, i) == prev_event_end(f, events, i)

candidate_end_dt(f, events, i) == prev_event_end(f, events, i) + f.duration

CandidateAccepted(f, events, i) ==
    /\ candidate_end_dt(f, events, i) <= next_event_start(f, events, i)
    /\ candidate_end_dt(f, events, i) <= f.valid_end_dt

\* variant: the loop keeps the last accepted candidate instead of returning
\* at the first one
RECURSIVE ScanFrom_Last(_, _, _)
ScanFrom_Last(f, events, i) ==
    IF i > Len(events) THEN -1
    ELSE LET later == ScanFrom_Last(f, events, i + 1)
         IN  IF later >= 0 THEN later
             ELSE IF CandidateAccepted(f, events, i) THEN i ELSE -1

\* the for loop: first index in i..len(events) whose candidate is accepted,
\* or -1 when the loop runs to its end
RECURSIVE ScanFrom(_, _, _)
ScanFrom(f, events, i) ==
    IF i > Len(events) THEN -1
    ELSE IF CandidateAccepted(f, events, i) THEN i
    ELSE ScanFrom(f, events, i + 1)

\* variant: the fallback is anchored to the end of the window
find_valid_slot_EndFallback(f, events) ==
    LET i == ScanFrom(f, events, 0)
    IN  IF i >= 0
        THEN [finder |-> [f EXCEPT !.no_clashes = TRUE,
                                   !.start_dt = candidate_start_dt(f, events, i),
                                   !.end_dt = candidate_end_dt(f, events, i)],
              ret |-> <<candidate_start_dt(f, events, i), candidate_end_dt(f, events, i)>>]
        ELSE [finder |-> f,
              ret |-> <<f.valid_end_dt - f.duration, f.valid_end_dt>>]

\* variant: a scan that accepts nothing clears what an earlier call found
find_valid_slot_ClearsFound(f, events) ==
    LET i == ScanFrom(f, events, 0)
    IN  IF i >= 0
        THEN [finder |-> [f EXCEPT !.no_clashes = TRUE,
                                   !.start_dt = candidate_start_dt(f, events, i),
                                   !.end_dt = candidate_end_dt(f, events, i)],
              ret |-> <<candidate_start_dt(f, events, i), candidate_end_dt(f, events, i)>>]
        ELSE [finder |-> [f EXCEPT !.no_clashes = FALSE],
              ret |-> <<f.valid_start_dt, f.valid_start_dt + f.duration>>]

\* find_valid_slot: the finder after the call and the returned tuple
find_valid_slot(f, events) ==
    LET i == ScanFrom(f, events, 0)
    IN  IF i >= 0
        THEN [finder |-> [f EXCEPT !.no_clashes = TRUE,
                                   !.start_dt = candidate_start_dt(f, events, i),
                                   !.end_dt = candidate_end_dt(f, events, i)],
              ret |-> <<candidate_start_dt(f, events, i), candidate_end_dt(f, events, i)>>]
        ELSE [finder |-> f,
              ret |-> <<f.valid_start_dt, f.valid_start_dt + f.duration>>]

\* ------------------------------------------------------------------------
\* Event model
\* ------------------------------------------------------------------------
\* NULL / None: no id; the ids that are handed out start at 1
NULL == 0
NoEvent == [kind |-> "NoEvent"]
NoRequest == [kind |-> "NoRequest"]

\* Event.duration
event_duration(e) == e.end_dt - e.start_dt

\* FixedEvent.__init__
FixedEvent(summary, start_dt, end_dt, google_id) ==
    [summary        |-> summary,
     start_dt       |-> start_dt,
     end_dt         |-> end_dt,
     is_flexible    |-> FALSE,
     valid_start_dt |-> start_dt,
     valid_end_dt   |-> end_dt,
     google_id      |-> google_id]

\* FlexibleEvent.__init__
FlexibleEvent(summary, start_dt, end_dt, valid_start_dt, valid_end_dt, google_id) ==
    [summary        |-> summary,
     start_dt       |-> start_dt,
     end_dt         |-> end_dt,
     is_flexible    |-> TRUE,
     valid_start_dt |-> valid_start_dt,
     valid_end_dt   |-> valid_end_dt,
     google_id      |-> google_id]

\* ------------------------------------------------------------------------
\* Database
\* ------------------------------------------------------------------------

\* WHERE google_id = ? (a NULL parameter matches no row)
RowsWithGoogleId(rows, google_id) ==
    IF google_id = NULL THEN {} ELSE {r \in rows : r.google_id = google_id}

\* LIMIT 1 / fetchone(): the row with the lowest id
FirstRow(rows) == CHOOSE r \in rows : \A q \in rows : r.id <= q.id

\* Database.event_status
event_status(rows, gc_event) ==
    LET found == RowsWithGoogleId(rows, gc_event.google_id)
    IN  IF found = {} THEN "NEW"
        ELSE LET db_event == FirstRow(found)
             IN  IF \/ db_event.summary # gc_event.summary
                    \/ db_event.event_start_dt # gc_event.start_dt
                    \/ db_event.event_end_dt # gc_event.end_dt
                 THEN "MODIFIED"
                 ELSE "UNCHANGED"

\* variant: the UPDATE also refreshes the row from the event that was passed
update_timestamp_RefreshesRow(rows, event) ==
    [rows    |-> {IF r \in RowsWithGoogleId(rows, event.google_id)
                  THEN [r EXCEPT !.summary = event.summary,
                                 !.event_start_dt = event.start_dt,
                                 !.event_end_dt = event.end_dt]
                  ELSE r : r \in rows},
     touched |-> {r.id : r \in RowsWithGoogleId(rows, event.google_id)}]

\* Database.__update_timestamp: UPDATE events SET last_updated = ? WHERE
\* google_id = ?. last_updated is not a column of the modelled rows: the
\* result is the rows with every modelled column as the statement leaves it,
\* and the ids of the rows whose last_updated it writes
update_timestamp(rows, event) ==
    [rows    |-> {r : r \in rows},
     touched |-> {r.id : r \in RowsWithGoogleId(rows, event.google_id)}]

\* Database.add_event: the row inserted for event under a new id
NewRow(id, event) ==
    [id             |-> id,
     summary        |-> event.summary,
     is_flexible    |-> event.is_flexible,
     event_start_dt |-> event.start_dt,
     event_end_dt   |-> event.end_dt,
     duration       |-> event_duration(event),
     valid_start_dt |-> event.valid_start_dt,
     valid_end_dt   |-> event.valid_end_dt,
     google_id      |-> event.google_id]

\* variant: the UPDATE also moves the window columns to the new start and end
db_edit_event_MovesWindow(rows, event, update_valid_window) ==
    {IF r.google_id = event.google_id /\ event.google_id # NULL
     THEN [r EXCEPT !.summary = event.summary,
                    !.event_start_dt = event.start_dt,
                    !.event_end_dt = event.end_dt,
                    !.duration = event_duration(event),
                    !.valid_start_dt = event.start_dt,
                    !.valid_end_dt = event.end_dt]
     ELSE r : r \in rows}

\* Database.edit_event: the two UPDATE statements
db_edit_event(rows, event, update_valid_window) ==
    {IF r.google_id = event.google_id /\ event.google_id # NULL
     THEN [r EXCEPT !.summary = event.summary,
                    !.event_start_dt = event.start_dt,
                    !.event_end_dt = event.end_dt,
                    !.duration = event_duration(event),
                    !.valid_start_dt = IF update_valid_window
                                       THEN event.valid_start_dt ELSE @,
                    !.valid_end_dt = IF update_valid_window
                                     THEN event.valid_end_dt ELSE @]
     ELSE r : r \in rows}

\* Database.update_google_id
update_google_id(rows, db_id, google_id) ==
    {IF r.id = db_id THEN [r EXCEPT !.google_id = google_id] ELSE r : r \in rows}

\* variant: the WHERE clause without "from BETWEEN start AND end"
InDateRange_NoFrom(r, from_dt, to_dt) ==
    \/ (from_dt <= r.event_start_dt /\ r.event_start_dt <= to_dt)
    \/ (r.event_start_dt <= to_dt /\ to_dt <= r.event_end_dt)

\* WHERE clause of get_events_in_date_range
InDateRange(r, from_dt, to_dt) ==
    \/ (from_dt <= r.event_start_dt /\ r.event_start_dt <= to_dt)
    \/ (r.event_start_dt <= from_dt /\ from_dt <= r.event_end_dt)
    \/ (r.event_start_dt <= to_dt /\ to_dt <= r.event_end_dt)

\* OrderBy: START = "valid_start_dt, valid_end_dt", END = "valid_end_dt, valid_start_dt";
\* rows with equal keys come out in id order
RowBefore(a, b, order_by) ==
    LET a1 == IF order_by = "START" THEN a.valid_start_dt ELSE a.valid_end_dt
        a2 == IF order_by = "START" THEN a.valid_end_dt ELSE a.valid_start_dt
        b1 == IF order_by = "START" THEN b.valid_start_dt ELSE b.valid_end_dt
        b2 == IF order_by = "START" THEN b.valid_end_dt ELSE b.valid_start_dt
    IN  \/ a1 < b1
        \/ (a1 = b1 /\ a2 < b2)
        \/ (a1 = b1 /\ a2 = b2 /\ a.id <= b.id)

RECURSIVE OrderRows(_, _)
OrderRows(rows, order_by) ==
    IF rows = {} THEN <<>>
    ELSE LET first == CHOOSE a \in rows : \A b \in rows : RowBefore(a, b, order_by)
         IN  <<first>> \o OrderRows(rows \ {first}, order_by)

\* Database.__create_event_from_db_query
create_event_from_db_query(db_query) ==
    [k \in 1..Len(db_query) |->
        IF ~db_query[k].is_flexible
        THEN FixedEvent(db_query[k].summary, db_query[k].event_start_dt,
                        db_query[k].event_end_dt, db_query[k].google_id)
        ELSE FlexibleEvent(db_query[k].summary, db_query[k].event_start_dt,
                           db_query[k].event_end_dt, db_query[k].valid_start_dt,
                           db_query[k].valid_end_dt, db_query[k].google_id)]

\* Database.get_events_in_date_range, for from_dt < to_dt;
\* event_type is "ALL", "FIXED" or "FLEXIBLE"
get_events_in_date_range(rows, from_dt, to_dt, event_type, order_by) ==
    LET selected == {r \in rows :
                        /\ InDateRange(r, from_dt, to_dt)
                        /\ \/ event_type = "ALL"
                           \/ (event_type = "FIXED" /\ ~r.is_flexible)
                           \/ (event_type = "FLEXIBLE" /\ r.is_flexible)}
    IN  create_event_from_db_query(OrderRows(selected, order_by))

\* ------------------------------------------------------------------------
\* GoogleCalendar
\* ------------------------------------------------------------------------

\* GoogleCalendar.add_event: the calendar with the inserted event
gc_add_event(cal, id, event) ==
    cal \cup {[id |-> id, summary |-> event.summary, start_dt |-> event.start_dt,
               end_dt |-> event.end_dt, status |-> "confirmed"]}

\* GoogleCalendar.event_exists
event_exists(cal, event_id) == \E c \in cal : c.id = event_id

\* GoogleCalendar.edit_event: the patch request
gc_edit_event(cal, event) ==
    {IF c.id = event.google_id
     THEN [c EXCEPT !.summary = event.summary,
                    !.start_dt = event.start_dt,
                    !.end_dt = event.end_dt]
     ELSE c : c \in cal}

\* ------------------------------------------------------------------------
\* Event builders
\* ------------------------------------------------------------------------

\* FixedEventBuilder.create_fixed_event
create_fixed_event(start_time, end_time, summary) ==
    IF summary = ""
    THEN [outcome |-> "ValueError", event |-> NoEvent]
    ELSE [outcome |-> "ok", event |-> FixedEvent(summary, start_time, end_time, NULL)]

\* variant: the builder returns the event without looking at no_clashes
create_flexible_event_Unchecked(rows, valid_start_dt, valid_end_dt, dur, summary) ==
    IF summary = ""
    THEN [outcome |-> "ValueError", event |-> NoEvent, finder |-> NoFinder,
          raised |-> FALSE, clashes |-> <<>>, ret |-> NoTuple]
    ELSE IF ~(valid_start_dt < valid_end_dt)
    THEN [outcome |-> "ValueError", event |-> NoEvent, finder |-> NoFinder,
          raised |-> FALSE, clashes |-> <<>>, ret |-> NoTuple]
    ELSE LET clashes == get_events_in_date_range(rows, valid_start_dt, valid_end_dt,
                                                 "ALL", "START")
         IN  IF FlexSlotFinderRaises(valid_start_dt, valid_end_dt, dur)
             THEN [outcome |-> "SystemExit", event |-> NoEvent, finder |-> NoFinder,
                   raised |-> TRUE, clashes |-> clashes, ret |-> NoTuple]
             ELSE LET r == find_valid_slot(
                               FlexSlotFinderNew(valid_start_dt, valid_end_dt, dur), clashes)
                  IN  [outcome |-> "ok",
                       event |-> FlexibleEvent(summary, r.ret[1], r.ret[2],
                                               valid_start_dt, valid_end_dt, NULL),
                       finder |-> r.finder, raised |-> FALSE,
                       clashes |-> clashes, ret |-> r.ret]

\* FlexibleEventBuilder.create_flexible_event: how it ends, the event it
\* returns, the finder it used, the list it passed and the tuple it got back
create_flexible_event(rows, valid_start_dt, valid_end_dt, dur, summary) ==
    IF summary = ""
    THEN [outcome |-> "ValueError", event |-> NoEvent, finder |-> NoFinder,
          raised |-> FALSE, clashes |-> <<>>, ret |-> NoTuple]
    ELSE IF ~(valid_start_dt < valid_end_dt)
    THEN \* get_events_in_date_range raises before the finder is constructed
         [outcome |-> "ValueError", event |-> NoEvent, finder |-> NoFinder,
          raised |-> FALSE, clashes |-> <<>>, ret |-> NoTuple]
    ELSE LET clashes == get_events_in_date_range(rows, valid_start_dt, valid_end_dt,
                                                 "ALL", "START")
         IN  IF FlexSlotFinderRaises(valid_start_dt, valid_end_dt, dur)
             THEN [outcome |-> "SystemExit", event |-> NoEvent, finder |-> NoFinder,
                   raised |-> TRUE, clashes |-> clashes, ret |-> NoTuple]
             ELSE LET r == find_valid_slot(
                               FlexSlotFinderNew(valid_start_dt, valid_end_dt, dur), clashes)
                  IN  IF ~r.finder.no_clashes
                      THEN [outcome |-> "SystemExit", event |-> NoEvent,
                            finder |-> r.finder, raised |-> FALSE,
                            clashes |-> clashes, ret |-> r.ret]
                      ELSE [outcome |-> "ok",
                            event |-> FlexibleEvent(summary, r.ret[1], r.ret[2],
                                                    valid_start_dt, valid_end_dt, NULL),
                            finder |-> r.finder, raised |-> FALSE,
                            clashes |-> clashes, ret |-> r.ret]

\* requests (EventJson of the API)
FixedRequests ==
    [is_flexible : {FALSE}, summary : Summaries, start_time : Times, end_time : Times]

FlexibleRequests ==
    [is_flexible : {TRUE}, summary : Summaries, earliest_start : Times,
     latest_end : Times, duration_minutes : Durations]

\* RequestHandler._create_event_from_json
create_event_from_json(rows, event_json) ==
    IF event_json.is_flexible
    THEN create_flexible_event(rows, event_json.earliest_start, event_json.latest_end,
                               event_json.duration_minutes, event_json.summary)
    ELSE LET b == create_fixed_event(event_json.start_time, event_json.end_time,
                                     event_json.summary)
         IN  [outcome |-> b.outcome, event |-> b.event, finder |-> NoFinder,
              raised |-> FALSE, clashes |-> <<>>, ret |-> NoTuple]

\* ------------------------------------------------------------------------
\* EventManager
\* ------------------------------------------------------------------------

\* EventManager.edit_event: Database.edit_event, then GoogleCalendar.edit_event
em_edit_event(rows, cal, event, update_valid_window) ==
    IF event_status(rows, event) # "MODIFIED"
    THEN [db |-> rows, gc |-> cal, outcome |-> "ValueError"]
    ELSE IF ~event_exists(cal, event.google_id)
    THEN [db |-> db_edit_event(rows, event, update_valid_window), gc |-> cal,
          outcome |-> "ValueError"]
    ELSE [db |-> db_edit_event(rows, event, update_valid_window),
          gc |-> gc_edit_event(cal, event), outcome |-> "ok"]

\* ------------------------------------------------------------------------
\* DateTimeConverter
\* ------------------------------------------------------------------------
get_cur_midnight(dt) == (dt \div MinsInDay) * MinsInDay

get_next_midnight(dt) == get_cur_midnight(dt) + MinsInDay

\* ------------------------------------------------------------------------
\* FlexEventOptimiser
\* ------------------------------------------------------------------------
convert_time_to_slot(dt) == (dt % MinsInDay) \div Precision

\* minutes after midnight of (hour, minute) returned by convert_slot_to_time
convert_slot_to_time(slot) == slot * Precision

\* (duration_slot, start_slot, end_slot) of every event of the list
preprocess_events(events_list) ==
    [k \in 1..Len(events_list) |->
        [duration_slot |-> event_duration(events_list[k]) \div Precision,
         start_slot    |-> convert_time_to_slot(events_list[k].valid_start_dt),
         end_slot      |-> convert_time_to_slot(events_list[k].valid_end_dt)]]

\* slots summed by the constraint Event_i_scheduled_once:
\* range(start_slot, end_slot - duration_slot + 1)
PlacementSlots(data) == data.start_slot..(data.end_slot - data.duration_slot)

\* slots the overlap loops run over: range(start_slot, end_slot + 1)
OverlapSlots(data) == data.start_slot..data.end_slot

\* the test that adds the constraint Overlap_i_j_at_ti_tj
SlotsOverlap(t_i, duration_i, t_j, duration_j) ==
    (t_i < t_j + duration_j) /\ (t_j < t_i + duration_i)

\* the pairs that own a variable o[i, j]: i.google_id < j.google_id
OverlapPairs(events_list) ==
    {pr \in (1..Len(events_list)) \X (1..Len(events_list)) :
        events_list[pr[1]].google_id < events_list[pr[2]].google_id}

\* the slots t whose variable x[k, t] occurs in a constraint of the model
\* (variables that occur in no constraint are not given to the solver and
\* keep the value None)
ModelSlots(events_list, processed, k) ==
    PlacementSlots(processed[k]) \cup
    {t \in OverlapSlots(processed[k]) :
        \E pr \in OverlapPairs(events_list) :
            \/ /\ pr[1] = k
               /\ \E t_j \in OverlapSlots(processed[pr[2]]) :
                     SlotsOverlap(t, processed[k].duration_slot,
                                  t_j, processed[pr[2]].duration_slot)
            \/ /\ pr[2] = k
               /\ \E t_i \in OverlapSlots(processed[pr[1]]) :
                     SlotsOverlap(t_i, processed[pr[1]].duration_slot,
                                  t, processed[k].duration_slot)}

\* the assignments of the x variables: for every event the set of slots with
\* x[k, t] = 1, taken among the variables of the model (model_slots[k]);
\* built event by event
RECURSIVE AllAssignments(_, _)
AllAssignments(model_slots, n) ==
    IF n = 0 THEN {<<>>}
    ELSE {Append(xs, ones) : xs \in AllAssignments(model_slots, n - 1),
                             ones \in SUBSET model_slots[n]}

\* the constraints Event_i_scheduled_once
ScheduledOnce(processed, xs) ==
    \A k \in DOMAIN processed :
        Cardinality(xs[k] \cap PlacementSlots(processed[k])) = 1

\* o[i, j] is forced to 1 by a constraint Overlap_i_j_at_ti_tj
OverlapForced(processed, xs, pr) ==
    \E t_i \in xs[pr[1]] \cap OverlapSlots(processed[pr[1]]),
       t_j \in xs[pr[2]] \cap OverlapSlots(processed[pr[2]]) :
        SlotsOverlap(t_i, processed[pr[1]].duration_slot,
                     t_j, processed[pr[2]].duration_slot)

\* the objective Minimise_Total_Overlaps at the cheapest o for xs
TotalOverlaps(pairs, processed, xs) ==
    Cardinality({pr \in pairs : OverlapForced(processed, xs, pr)})

SetMin(S) == CHOOSE m \in S : \A t \in S : m <= t

\* model.solve: the optimal assignments when the model is feasible; when it
\* is infeasible the solver reports so and leaves the variables at values of
\* its own
Solve(events_list, processed) ==
    LET model_slots == [k \in 1..Len(events_list) |->
                           ModelSlots(events_list, processed, k)]
        pairs == OverlapPairs(events_list)
        all == AllAssignments(model_slots, Len(events_list))
        feasible == {xs \in all : ScheduledOnce(processed, xs)}
        cost == [xs \in feasible |-> TotalOverlaps(pairs, processed, xs)]
        best == SetMin({cost[xs] : xs \in feasible})
    IN  IF feasible = {}
        THEN [status |-> "Infeasible", objective |-> -1, solutions |-> all]
        ELSE [status |-> "Optimal", objective |-> best,
              solutions |-> {xs \in feasible : cost[xs] = best}]

SetMax(S) == CHOOSE m \in S : \A t \in S : t <= m

\* variant: the decoded end is counted in whole slots of the duration
DecodeEvent_SlotDuration(event, ones) ==
    IF ones = {} THEN event
    ELSE LET start_dt == get_cur_midnight(event.start_dt)
                            + convert_slot_to_time(SetMax(ones))
         IN  [event EXCEPT !.start_dt = start_dt,
                           !.end_dt = start_dt
                               + Precision * (event_duration(event) \div Precision)]

\* the decoding loop for one event: every t with x[i, t] = 1 rewrites
\* start_dt and end_dt, so the highest such t is the one that stays
DecodeEvent(event, ones) ==
    IF ones = {} THEN event
    ELSE LET start_dt == get_cur_midnight(event.start_dt)
                            + convert_slot_to_time(SetMax(ones))
         IN  [event EXCEPT !.start_dt = start_dt,
                           !.end_dt = start_dt + event_duration(event)]

\* str(event), which names the constraint Event_i_scheduled_once: equal for
\* two events of the same kind, summary, start and end (and window, for
\* flexible events)
SameStr(e1, e2) ==
    /\ e1.is_flexible = e2.is_flexible
    /\ e1.summary = e2.summary
    /\ e1.start_dt = e2.start_dt
    /\ e1.end_dt = e2.end_dt
    /\ e1.is_flexible =>
          (e1.valid_start_dt = e2.valid_start_dt /\ e1.valid_end_dt = e2.valid_end_dt)

\* building the constraint Event_i_scheduled_once of event number k fails:
\* x[i, t] is looked up for a slot t that is no key of x (KeyError), or the
\* model already has a constraint of that name (PulpError)
PlacementKeyError(processed, k) ==
    ~(PlacementSlots(processed[k]) \subseteq 0..(num_slots - 1))

DuplicateName(events_list, k) ==
    \E j \in 1..(k - 1) : SameStr(events_list[j], events_list[k])

\* how building the model ends: "ok", or the error of the first event whose
\* constraint cannot be added
BuildOutcome(events_list, processed) ==
    LET bad == {k \in 1..Len(events_list) :
                    PlacementKeyError(processed, k) \/ DuplicateName(events_list, k)}
    IN  IF bad = {} THEN "ok"
        ELSE IF PlacementKeyError(processed, SetMin(bad)) THEN "KeyError"
        ELSE "PulpError"

\* FlexEventOptimiser.run_ILP_optimiser: the list it read and the lists it
\* may return
run_ILP_optimiser(rows, dt) ==
    LET events_list == get_events_in_date_range(rows, get_cur_midnight(dt),
                                                get_next_midnight(dt), "ALL", "START")
        processed == preprocess_events(events_list)
    IN  IF \E k \in 1..Len(events_list) : events_list[k].google_id = NULL
        THEN \* None < None in the generator of o
             {[outcome |-> "TypeError", status |-> "none", objective |-> -1,
               x |-> <<>>, o |-> NoIndicators,
               before |-> events_list, events |-> events_list]}
        ELSE IF BuildOutcome(events_list, processed) # "ok"
        THEN {[outcome |-> BuildOutcome(events_list, processed),
               status |-> "none", objective |-> -1,
               x |-> <<>>, o |-> NoIndicators,
               before |-> events_list, events |-> events_list]}
        ELSE LET solved == Solve(events_list, processed)
             IN  {[outcome |-> "ok", status |-> solved.status,
                   objective |-> solved.objective,
                   x |-> xs,
                   o |-> [pairs |-> OverlapPairs(events_list),
                          ones |-> {pr \in OverlapPairs(events_list) :
                                       OverlapForced(processed, xs, pr)}],
                   before |-> events_list,
                   events |-> [k \in 1..Len(events_list) |->
                                  DecodeEvent(events_list[k], xs[k])]] :
                     xs \in solved.solutions}

\* variant: the loop edits every event the store knows, modified or not
RECURSIVE EditModified_All(_, _, _, _, _)
EditModified_All(rows, cal, processed_events, k, written) ==
    IF k > Len(processed_events)
    THEN [db |-> rows, gc |-> cal, outcome |-> "ok", written |-> written]
    ELSE IF event_status(rows, processed_events[k]) # "NEW"
    THEN LET r == em_edit_event(rows, cal, processed_events[k], FALSE)
             w == written \cup {processed_events[k].google_id}
         IN  IF r.outcome # "ok"
             THEN [db |-> r.db, gc |-> r.gc, outcome |-> r.outcome, written |-> w]
             ELSE EditModified_All(r.db, r.gc, processed_events, k + 1, w)
    ELSE EditModified_All(rows, cal, processed_events, k + 1, written)

\* the loop of RequestHandler.optimise_events from event number k on;
\* written collects the google ids EventManager.edit_event was called for
RECURSIVE EditModified(_, _, _, _, _)
EditModified(rows, cal, processed_events, k, written) ==
    IF k > Len(processed_events)
    THEN [db |-> rows, gc |-> cal, outcome |-> "ok", written |-> written]
    ELSE IF event_status(rows, processed_events[k]) = "MODIFIED"
    THEN LET r == em_edit_event(rows, cal, processed_events[k], FALSE)
             w == written \cup {processed_events[k].google_id}
         IN  IF r.outcome # "ok"
             THEN [db |-> r.db, gc |-> r.gc, outcome |-> r.outcome, written |-> w]
             ELSE EditModified(r.db, r.gc, processed_events, k + 1, w)
    ELSE EditModified(rows, cal, processed_events, k + 1, written)

\* one request to the store or the calendar, or the solve step
Access(kind, on, by) == [kind |-> kind, on |-> on, by |-> by]

\* the requests of Database.event_status: the SELECT, and the UPDATE of
\* __update_timestamp when the SELECT found a row
EventStatusAccesses(rows, event) ==
    <<Access("read", "store", "event_status")>> \o
    (IF RowsWithGoogleId(rows, event.google_id) # {}
     THEN <<Access("write", "store", "__update_timestamp")>> ELSE <<>>)

\* the requests of EventManager.edit_event: Database.edit_event (its own
\* event_status, then the UPDATE), then GoogleCalendar.edit_event (the get
\* of event_exists, then the patch)
EditEventAccesses(rows, cal, event) ==
    EventStatusAccesses(rows, event) \o
    (IF event_status(rows, event) # "MODIFIED" THEN <<>>
     ELSE <<Access("write", "store", "Database.edit_event"),
            Access("read", "calendar", "event_exists")>> \o
          (IF event_exists(cal, event.google_id)
           THEN <<Access("write", "calendar", "GoogleCalendar.edit_event")>>
           ELSE <<>>))

\* the requests of the loop of RequestHandler.optimise_events from event
\* number k on
RECURSIVE LoopAccesses(_, _, _, _)
LoopAccesses(rows, cal, processed_events, k) ==
    IF k > Len(processed_events) THEN <<>>
    ELSE EventStatusAccesses(rows, processed_events[k]) \o
         (IF event_status(rows, processed_events[k]) = "MODIFIED"
          THEN LET r == em_edit_event(rows, cal, processed_events[k], FALSE)
               IN  EditEventAccesses(rows, cal, processed_events[k]) \o
                   (IF r.outcome # "ok" THEN <<>>
                    ELSE LoopAccesses(r.db, r.gc, processed_events, k + 1))
          ELSE LoopAccesses(rows, cal, processed_events, k + 1))

\* the requests of one pass: the range query of run_ILP_optimiser, the solve
\* (when the model could be built), then the loop
PassAccesses(rows, cal, res) ==
    <<Access("read", "store", "get_events_in_date_range")>> \o
    (IF res.outcome # "ok" THEN <<>>
     ELSE <<Access("solve", "solver", "model.solve")>> \o
          LoopAccesses(rows, cal, res.events, 1))

\* ------------------------------------------------------------------------
\* Request handlers
\* ------------------------------------------------------------------------
InitStore ==
    /\ db = {}
    /\ next_id = 1
    /\ gc = {}
    /\ next_gid = 1

InitHandler ==
    /\ pc = "idle"
    /\ req = NoRequest
    /\ new_event = NoEvent
    /\ outcome = "none"
    /\ opt_before = <<>>
    /\ opt_events = <<>>
    /\ opt_status = "none"
    /\ opt_objective = -1
    /\ opt_written = {}
    /\ opt_x = <<>>
    /\ opt_o = NoIndicators
    /\ opt_io = <<>>
    /\ submit = NoSubmit
    /\ db_call = NoCall

InitHandlers ==
    /\ InitStore
    /\ InitHandler
    /\ slot_finder = NoFinder
    /\ sf_op = "none"
    /\ sf_args = NoArgs
    /\ sf_raised = FALSE
    /\ sf_events = <<>>
    /\ sf_ret = NoTuple
    /\ sf_calls = 0

\* what _create_event_from_json leaves of the finder it used
BuilderFinder(event_json, b) ==
    /\ slot_finder' = b.finder
    /\ sf_op' = IF b.finder # NoFinder THEN "find"
                ELSE IF b.raised THEN "init" ELSE "none"
    /\ sf_args' = IF b.finder # NoFinder \/ b.raised
                  THEN [valid_start_dt |-> event_json.earliest_start,
                        valid_end_dt |-> event_json.latest_end,
                        duration |-> event_json.duration_minutes]
                  ELSE NoArgs
    /\ sf_raised' = b.raised
    /\ sf_events' = b.clashes
    /\ sf_ret' = b.ret
    /\ sf_calls' = IF b.finder # NoFinder THEN 1 ELSE 0

\* RequestHandler.add_event up to the end of EventManager.submit_event
AddEvent(event_json) ==
    /\ pc = "idle"
    /\ Cardinality(db) < MaxRows
    /\ LET b == create_event_from_json(db, event_json)
       IN  /\ BuilderFinder(event_json, b)
           /\ req' = event_json
           /\ new_event' = b.event
           /\ IF b.outcome = "ok"
              THEN /\ db' = update_google_id(db \cup {NewRow(next_id, b.event)},
                                             next_id, next_gid)
                   /\ gc' = gc_add_event(gc, next_gid, b.event)
                   /\ next_id' = next_id + 1
                   /\ next_gid' = next_gid + 1
                   /\ pc' = "optimise"
                   /\ outcome' = "none"
              ELSE /\ pc' = "done"
                   /\ outcome' = b.outcome
                   /\ UNCHANGED store_vars
    /\ UNCHANGED <<opt_before, opt_events, opt_status, opt_objective, opt_written, opt_x, opt_o, opt_io,
          submit, db_call>>

\* RequestHandler.optimise_events(dt): run_ILP_optimiser, then the loop
\* over the events it returned
OptimisePass(dt) ==
    \E res \in run_ILP_optimiser(db, dt) :
        /\ opt_before' = res.before
        /\ opt_events' = res.events
        /\ opt_status' = res.status
        /\ opt_objective' = res.objective
        /\ opt_x' = res.x
        /\ opt_o' = res.o
        /\ opt_io' = PassAccesses(db, gc, res)
        /\ IF res.outcome # "ok"
           THEN /\ outcome' = res.outcome
                /\ opt_written' = {}
                /\ UNCHANGED <<db, gc>>
           ELSE LET w == EditModified(db, gc, res.events, 1, {})
                IN  /\ db' = w.db
                    /\ gc' = w.gc
                    /\ outcome' = w.outcome
                    /\ opt_written' = w.written

\* RequestHandler.optimise_events(new_event.start_dt) at the end of add_event
OptimiseEvents ==
    /\ pc = "optimise"
    /\ OptimisePass(new_event.start_dt)
    /\ pc' = "done"
    /\ UNCHANGED <<next_id, next_gid, req, new_event, submit, db_call, finder_vars>>

\* RequestHandler.optimise_events called once more for the same day, with
\* nothing else in between
OptimiseEventsAgain ==
    /\ pc = "done"
    /\ outcome = "ok"
    /\ OptimisePass(new_event.start_dt)
    /\ pc' = "again"
    /\ UNCHANGED <<next_id, next_gid, req, new_event, submit, db_call, finder_vars>>

\* the handler has returned (or the error has reached the caller): its
\* local objects are gone
HandlerReturn ==
    /\ pc \in {"done", "again"}
    /\ pc' = "idle"
    /\ req' = NoRequest
    /\ new_event' = NoEvent
    /\ outcome' = "none"
    /\ opt_before' = <<>>
    /\ opt_events' = <<>>
    /\ opt_status' = "none"
    /\ opt_objective' = -1
    /\ opt_written' = {}
    /\ opt_x' = <<>>
    /\ opt_o' = NoIndicators
    /\ opt_io' = <<>>
    /\ submit' = NoSubmit
    /\ slot_finder' = NoFinder
    /\ sf_op' = "none"
    /\ sf_args' = NoArgs
    /\ sf_raised' = FALSE
    /\ sf_events' = <<>>
    /\ sf_ret' = NoTuple
    /\ sf_calls' = 0
    /\ db_call' = NoCall
    /\ UNCHANGED store_vars

Next ==
    \/ \E event_json \in FixedRequests \cup FlexibleRequests : AddEvent(event_json)
    \/ OptimiseEvents
    \/ HandlerReturn

Spec == InitHandlers /\ [][Next]_vars

\* ------------------------------------------------------------------------
\* SpecCalendar: the handlers on a day that runs up to midnight, with the
\* owner of the Google calendar removing events and optimise_events being
\* called a second time
\* ------------------------------------------------------------------------
MaxLateRows == 2

LateTimes == {0, 30, 1440}
LateDurations == {5, 15}

LateFixedRequests ==
    {ej \in [is_flexible : {FALSE}, summary : Summaries,
              start_time : LateTimes, end_time : LateTimes] :
        ej.start_time < ej.end_time}

LateFlexibleRequests ==
    {ej \in [is_flexible : {TRUE}, summary : Summaries, earliest_start : LateTimes,
              latest_end : LateTimes, duration_minutes : LateDurations] :
        ej.earliest_start < ej.latest_end}

\* the event is removed in Google Calendar itself: events().get answers 404
CalendarRemove(event_id) ==
    /\ \E c \in gc : c.id = event_id
    /\ gc' = {c \in gc : c.id # event_id}
    /\ UNCHANGED <<db, next_id, next_gid, handler_vars, finder_vars>>

\* RequestHandler.add_event on a store that holds fewer than MaxLateRows rows
AddLateEvent(event_json) ==
    /\ Cardinality(db) < MaxLateRows
    /\ AddEvent(event_json)

NextCalendar ==
    \/ \E event_json \in LateFixedRequests \cup LateFlexibleRequests :
          AddLateEvent(event_json)
    \/ OptimiseEvents
    \/ OptimiseEventsAgain
    \/ HandlerReturn
    \/ \E event_id \in 1..MaxLateRows : CalendarRemove(event_id)

SpecCalendar == InitHandlers /\ [][NextCalendar]_vars

\* ------------------------------------------------------------------------
\* SpecDatabase: the methods of Database called one after the other on
\* events a caller holds (tests/test_scheduler.py TestDatabase)
\* ------------------------------------------------------------------------
DbSummaries == {"a", "b"}

\* google_id of the events passed in: None (as the builders leave it) or set
DbGoogleIds == {NULL, 1}

DbEvents ==
    {FixedEvent(summary, 0, end_dt, google_id) :
        summary \in DbSummaries, end_dt \in {15, 30}, google_id \in DbGoogleIds}
    \cup
    {FlexibleEvent(summary, 0, 15, 0, valid_end_dt, google_id) :
        summary \in {"a"}, valid_end_dt \in {30}, google_id \in DbGoogleIds}

\* Database.del_event: DELETE FROM events WHERE google_id = ?
db_del_event(rows, event) == rows \ RowsWithGoogleId(rows, event.google_id)

\* Database.event_status(event)
DbEventStatus(event) ==
    /\ LET stamped == IF event_status(db, event) = "NEW"
                      THEN [rows |-> db, touched |-> {}]
                      ELSE update_timestamp(db, event)
       IN  /\ db' = stamped.rows
           /\ db_call' = [op |-> "event_status", event |-> event, outcome |-> "ok",
                          status |-> event_status(db, event),
                          touched |-> stamped.touched]
    /\ UNCHANGED <<next_id, gc, next_gid, pc, req, new_event, outcome, opt_before, opt_events,
                   opt_status, opt_objective, opt_written,
                   opt_x, opt_o, opt_io, submit, finder_vars>>

\* Database.add_event(event)
DbAddEvent(event) ==
    /\ next_id <= MaxDbInserts
    /\ IF event_status(db, event) # "NEW"
       THEN /\ db_call' = [op |-> "add_event", event |-> event,
                           outcome |-> "ValueError", new_id |-> 0]
            /\ UNCHANGED <<db, next_id>>
       ELSE /\ db' = db \cup {NewRow(next_id, event)}
            /\ next_id' = next_id + 1
            /\ db_call' = [op |-> "add_event", event |-> event,
                           outcome |-> "ok", new_id |-> next_id]
    /\ UNCHANGED <<gc, next_gid, pc, req, new_event, outcome, opt_before, opt_events,
                   opt_status, opt_objective, opt_written,
                   opt_x, opt_o, opt_io, submit, finder_vars>>

\* variant: the guard only asks that the event is stored, changed or not
DbEditEvent_Unguarded(event, update_valid_window) ==
    /\ IF event_status(db, event) = "NEW"
       THEN /\ db_call' = [op |-> "edit_event", event |-> event,
                           outcome |-> "ValueError"]
            /\ UNCHANGED db
       ELSE /\ db' = db_edit_event(db, event, update_valid_window)
            /\ db_call' = [op |-> "edit_event", event |-> event, outcome |-> "ok"]
    /\ UNCHANGED <<next_id, gc, next_gid, pc, req, new_event, outcome, opt_before,
                   opt_events, opt_status, opt_objective, opt_written,
                   opt_x, opt_o, opt_io, submit, finder_vars>>

\* Database.edit_event(event, update_valid_window)
DbEditEvent(event, update_valid_window) ==
    /\ IF event_status(db, event) # "MODIFIED"
       THEN /\ db_call' = [op |-> "edit_event", event |-> event,
                           outcome |-> "ValueError"]
            /\ UNCHANGED db
       ELSE /\ db' = db_edit_event(db, event, update_valid_window)
            /\ db_call' = [op |-> "edit_event", event |-> event, outcome |-> "ok"]
    /\ UNCHANGED <<next_id, gc, next_gid, pc, req, new_event, outcome, opt_before,
                   opt_events, opt_status, opt_objective, opt_written,
                   opt_x, opt_o, opt_io, submit, finder_vars>>

\* Database.del_event(event)
DbDelEvent(event) ==
    /\ IF event_status(db, event) = "NEW"
       THEN /\ db_call' = [op |-> "del_event", event |-> event,
                           outcome |-> "ValueError"]
            /\ UNCHANGED db
       ELSE /\ db' = db_del_event(db, event)
            /\ db_call' = [op |-> "del_event", event |-> event, outcome |-> "ok"]
    /\ UNCHANGED <<next_id, gc, next_gid, pc, req, new_event, outcome, opt_before,
                   opt_events, opt_status, opt_objective, opt_written,
                   opt_x, opt_o, opt_io, submit, finder_vars>>

NextDatabase ==
    \E event \in DbEvents :
        \/ DbEventStatus(event)
        \/ DbAddEvent(event)
        \/ \E update_valid_window \in BOOLEAN : DbEditEvent(event, update_valid_window)
        \/ DbDelEvent(event)

SpecDatabase == InitHandlers /\ [][NextDatabase]_vars

\* ------------------------------------------------------------------------
\* SpecQuery: events with a google id are added to the store, then
\* get_events_in_date_range is called on it
\* (tests/test_scheduler.py test_get_events_returns_correct_events,
\* test_get_events_order_by)
\* ------------------------------------------------------------------------
QueryGoogleIds == {1, 2, 3}

\* fixed events (one of them with its end before its start, which
\* create_fixed_event lets through) and flexible events placed at the start
\* of their window or later in it
QueryEvents ==
    {FixedEvent("a", t[1], t[2], google_id) :
        t \in {<<0, 15>>, <<5, 10>>, <<20, 30>>, <<15, 0>>}, google_id \in QueryGoogleIds}
    \cup
    {FlexibleEvent("a", t[1], t[2], 0, 30, google_id) :
        t \in {<<0, 5>>, <<15, 20>>}, google_id \in QueryGoogleIds}

QueryTimes == {0, 5, 12, 20, 40}

\* Database.get_events_in_date_range(from_dt, to_dt, event_type, order_by)
DbGetEvents(from_dt, to_dt, event_type, order_by) ==
    /\ IF ~(from_dt < to_dt)
       THEN db_call' = [op |-> "get_events_in_date_range", from_dt |-> from_dt,
                        to_dt |-> to_dt, event_type |-> event_type,
                        order_by |-> order_by, outcome |-> "ValueError",
                        events |-> <<>>]
       ELSE db_call' = [op |-> "get_events_in_date_range", from_dt |-> from_dt,
                        to_dt |-> to_dt, event_type |-> event_type,
                        order_by |-> order_by, outcome |-> "ok",
                        events |-> get_events_in_date_range(db, from_dt, to_dt,
                                                            event_type, order_by)]
    /\ UNCHANGED <<store_vars, pc, req, new_event, outcome, opt_before, opt_events,
                   opt_status, opt_objective, opt_written,
                   opt_x, opt_o, opt_io, submit, finder_vars>>

\* Database.add_event(event) for an event whose google id no row holds yet
QueryAddEvent(event) ==
    /\ event.google_id = next_id
    /\ DbAddEvent(event)

NextQuery ==
    \/ \E event \in QueryEvents : QueryAddEvent(event)
    \/ \E from_dt, to_dt \in QueryTimes :
          \E event_type \in {"ALL", "FIXED", "FLEXIBLE"} :
             \E order_by \in {"START", "END"} :
                DbGetEvents(from_dt, to_dt, event_type, order_by)

SpecQuery == InitHandlers /\ [][NextQuery]_vars

\* ------------------------------------------------------------------------
\* SpecSync: events are added through add_event, the owner of the calendar
\* inserts, moves and cancels events in Google Calendar itself, and
\* RequestHandler.get_events synchronises the store with the calendar
\* ------------------------------------------------------------------------

\* at most this many events are ever created in the calendar
MaxSyncEvents == 2

\* where the owner of the calendar puts events, and the ranges asked for
SyncTimes == {0, 30, 45}

\* the requests to add_event: flexible events of one slot in a window of two
SyncRequests ==
    [is_flexible : {TRUE}, summary : Summaries, earliest_start : {0},
     latest_end : {30}, duration_minutes : {15}]

\* events().list(timeMin, timeMax): events that end after timeMin and start
\* before timeMax
InCalendarRange(c, start_dt, end_dt) == c.end_dt > start_dt /\ c.start_dt < end_dt

\* orderBy = 'startTime'; events of equal start in id order
RECURSIVE OrderByStartTime(_)
OrderByStartTime(cal) ==
    IF cal = {} THEN <<>>
    ELSE LET first == CHOOSE c \in cal : \A d \in cal :
                          \/ c.start_dt < d.start_dt
                          \/ (c.start_dt = d.start_dt /\ c.id <= d.id)
         IN  <<first>> \o OrderByStartTime(cal \ {first})

\* GoogleCalendar.__to_event_object
to_event_object(c) == FixedEvent(c.summary, c.start_dt, c.end_dt, c.id)

\* GoogleCalendar.get_events(start_dt, end_dt, in_range = True), for
\* start_dt < end_dt: the current and the cancelled events of the range
gc_get_events(cal, start_dt, end_dt) ==
    LET events_json == OrderByStartTime({c \in cal : InCalendarRange(c, start_dt, end_dt)})
        current == SelectSeq(events_json, LAMBDA c : c.status # "cancelled")
        deleted == SelectSeq(events_json, LAMBDA c : c.status = "cancelled")
    IN  [cur_events |-> [k \in 1..Len(current) |-> to_event_object(current[k])],
         del_events |-> [k \in 1..Len(deleted) |-> to_event_object(deleted[k])]]

\* variant: the loop over cur_events adds the new events and edits none
RECURSIVE SyncCurrent_AddOnly(_, _, _, _, _)
SyncCurrent_AddOnly(rows, id, cur_events, k, st) ==
    IF k > Len(cur_events)
    THEN [db |-> rows, next_id |-> id, added |-> st.added, edited |-> st.edited]
    ELSE IF event_status(rows, cur_events[k]) = "NEW"
    THEN SyncCurrent_AddOnly(rows \cup {NewRow(id, cur_events[k])}, id + 1, cur_events, k + 1,
                     [st EXCEPT !.added = @ \cup {cur_events[k].google_id}])
    ELSE SyncCurrent_AddOnly(rows, id, cur_events, k + 1, st)

\* the loop of sync_gc_to_db over cur_events from event number k on; st
\* collects the google ids of the events added and edited
RECURSIVE SyncCurrent(_, _, _, _, _)
SyncCurrent(rows, id, cur_events, k, st) ==
    IF k > Len(cur_events)
    THEN [db |-> rows, next_id |-> id, added |-> st.added, edited |-> st.edited]
    ELSE IF event_status(rows, cur_events[k]) = "NEW"
    THEN SyncCurrent(rows \cup {NewRow(id, cur_events[k])}, id + 1, cur_events, k + 1,
                     [st EXCEPT !.added = @ \cup {cur_events[k].google_id}])
    ELSE IF event_status(rows, cur_events[k]) = "MODIFIED"
    THEN SyncCurrent(db_edit_event(rows, cur_events[k], FALSE), id, cur_events, k + 1,
                     [st EXCEPT !.edited = @ \cup {cur_events[k].google_id}])
    ELSE SyncCurrent(rows, id, cur_events, k + 1, st)

\* the loop of sync_gc_to_db over del_events from event number k on; the
\* ValueError of del_event for an event the store lacks is caught
RECURSIVE SyncDeleted(_, _, _, _)
SyncDeleted(rows, del_events, k, deleted) ==
    IF k > Len(del_events)
    THEN [db |-> rows, deleted |-> deleted]
    ELSE IF event_status(rows, del_events[k]) = "NEW"
    THEN SyncDeleted(rows, del_events, k + 1, deleted)
    ELSE SyncDeleted(db_del_event(rows, del_events[k]), del_events, k + 1,
                     deleted \cup {del_events[k].google_id})

\* EventManager.sync_gc_to_db(in_range = True, start_dt, end_dt)
sync_gc_to_db(rows, id, cal, start_dt, end_dt) ==
    IF ~(start_dt < end_dt)
    THEN [db |-> rows, next_id |-> id, outcome |-> "ValueError",
          added |-> {}, edited |-> {}, deleted |-> {}]
    ELSE LET got == gc_get_events(cal, start_dt, end_dt)
         IN  IF got.cur_events = <<>> /\ got.del_events = <<>>
             THEN [db |-> rows, next_id |-> id, outcome |-> "ValueError",
                   added |-> {}, edited |-> {}, deleted |-> {}]
             ELSE LET c == SyncCurrent(rows, id, got.cur_events, 1,
                                       [added |-> {}, edited |-> {}])
                      d == SyncDeleted(c.db, got.del_events, 1, {})
                  IN  [db |-> d.db, next_id |-> c.next_id, outcome |-> "ok",
                       added |-> c.added, edited |-> c.edited, deleted |-> d.deleted]

\* RequestHandler.get_events(in_range = True, from_date, to_date):
\* sync_gc_to_db, then get_events_in_date_range
GetEvents(from_dt, to_dt) ==
    /\ pc = "idle"
    /\ LET r == sync_gc_to_db(db, next_id, gc, from_dt, to_dt)
       IN  /\ db' = r.db
           /\ next_id' = r.next_id
           /\ outcome' = r.outcome
           /\ db_call' = [op |-> "sync_gc_to_db", start_dt |-> from_dt, end_dt |-> to_dt,
                          added |-> r.added, edited |-> r.edited, deleted |-> r.deleted,
                          events |-> IF r.outcome = "ok"
                                     THEN get_events_in_date_range(r.db, from_dt, to_dt,
                                                                   "ALL", "START")
                                     ELSE <<>>]
    /\ pc' = "done"
    /\ UNCHANGED <<gc, next_gid, req, new_event, opt_before, opt_events, opt_status,
                   opt_objective, opt_written,
                   opt_x, opt_o, opt_io, submit, finder_vars>>

\* RequestHandler.add_event while the calendar has had fewer than
\* MaxSyncEvents events
AddSyncEvent(event_json) ==
    /\ next_gid <= MaxSyncEvents
    /\ AddEvent(event_json)

\* the owner of the calendar creates an event in Google Calendar itself
CalendarInsert(start_dt, end_dt) ==
    /\ pc = "idle"
    /\ next_gid <= MaxSyncEvents
    /\ gc' = gc \cup {[id |-> next_gid, summary |-> "a", start_dt |-> start_dt,
                       end_dt |-> end_dt, status |-> "confirmed"]}
    /\ next_gid' = next_gid + 1
    /\ UNCHANGED <<db, next_id, handler_vars, finder_vars>>

\* the owner of the calendar moves an event to another start, in Google
\* Calendar itself
CalendarMove(event_id, start_dt) ==
    /\ pc = "idle"
    /\ \E c \in gc :
          /\ c.id = event_id
          /\ c.status = "confirmed"
          /\ c.start_dt # start_dt
          /\ gc' = (gc \ {c}) \cup {[c EXCEPT !.start_dt = start_dt,
                                              !.end_dt = start_dt + (c.end_dt - c.start_dt)]}
    /\ UNCHANGED <<db, next_id, next_gid, handler_vars, finder_vars>>

\* the owner of the calendar deletes an event in Google Calendar itself:
\* events().list(showDeleted = True) reports it as cancelled
CalendarCancel(event_id) ==
    /\ pc = "idle"
    /\ \E c \in gc :
          /\ c.id = event_id
          /\ c.status = "confirmed"
          /\ gc' = (gc \ {c}) \cup {[c EXCEPT !.status = "cancelled"]}
    /\ UNCHANGED <<db, next_id, next_gid, handler_vars, finder_vars>>

NextSync ==
    \/ \E event_json \in SyncRequests : AddSyncEvent(event_json)
    \/ OptimiseEvents
    \/ HandlerReturn
    \/ \E from_dt, to_dt \in SyncTimes : GetEvents(from_dt, to_dt)
    \/ \E start_dt \in SyncTimes : CalendarInsert(start_dt, start_dt + 15)
    \/ \E event_id \in 1..MaxSyncEvents : \E start_dt \in SyncTimes :
          CalendarMove(event_id, start_dt)
    \/ \E event_id \in 1..MaxSyncEvents : CalendarCancel(event_id)

SpecSync == InitHandlers /\ [][NextSync]_vars

\* ------------------------------------------------------------------------
\* SpecConcurrent: one POST /events request handled step by step while
\* GET /events requests are handled by other worker threads.  The endpoints
\* are plain functions that each build their own RequestHandler, every
\* Database method opens and commits its own connection, and nothing in
\* the program holds a lock.
\* ------------------------------------------------------------------------

\* RequestHandler.add_event up to the end of Database.add_event inside
\* EventManager.submit_event: the row is inserted without a google id
SubmitDbAdd(event_json) ==
    /\ pc = "idle"
    /\ next_gid <= MaxSyncEvents
    /\ LET b == create_event_from_json(db, event_json)
       IN  /\ BuilderFinder(event_json, b)
           /\ req' = event_json
           /\ new_event' = b.event
           /\ IF b.outcome = "ok"
              THEN /\ db' = db \cup {NewRow(next_id, b.event)}
                   /\ submit' = [db_id |-> next_id, google_id |-> NULL]
                   /\ next_id' = next_id + 1
                   /\ pc' = "submit_db"
                   /\ outcome' = "none"
              ELSE /\ pc' = "done"
                   /\ outcome' = b.outcome
                   /\ UNCHANGED <<db, next_id, submit>>
    /\ UNCHANGED <<gc, next_gid, opt_before, opt_events, opt_status, opt_objective,
                   opt_written, opt_x, opt_o, opt_io, db_call>>

\* GoogleCalendar.add_event inside submit_event: the calendar has the event,
\* the store row does not carry its id yet
SubmitGcAdd ==
    /\ pc = "submit_db"
    /\ gc' = gc_add_event(gc, next_gid, new_event)
    /\ submit' = [submit EXCEPT !.google_id = next_gid]
    /\ next_gid' = next_gid + 1
    /\ pc' = "submit_gc"
    /\ UNCHANGED <<db, next_id, req, new_event, outcome, opt_before, opt_events,
                   opt_status, opt_objective, opt_written, opt_x, opt_o, opt_io,
                   db_call, finder_vars>>

\* Database.update_google_id at the end of submit_event
SubmitLink ==
    /\ pc = "submit_gc"
    /\ db' = update_google_id(db, submit.db_id, submit.google_id)
    /\ pc' = "optimise"
    /\ UNCHANGED <<next_id, gc, next_gid, req, new_event, outcome, opt_before,
                   opt_events, opt_status, opt_objective, opt_written, opt_x, opt_o,
                   opt_io, submit, db_call, finder_vars>>

\* run_ILP_optimiser inside optimise_events: the range query, the solve and
\* the decoding
PassSolve ==
    /\ pc = "optimise"
    /\ \E res \in run_ILP_optimiser(db, new_event.start_dt) :
          /\ opt_before' = res.before
          /\ opt_events' = res.events
          /\ opt_status' = res.status
          /\ opt_objective' = res.objective
          /\ opt_x' = res.x
          /\ opt_o' = res.o
          /\ opt_io' = <<Access("read", "store", "get_events_in_date_range")>> \o
                        (IF res.outcome # "ok" THEN <<>>
                         ELSE <<Access("solve", "solver", "model.solve")>>)
          /\ outcome' = IF res.outcome # "ok" THEN res.outcome ELSE "none"
          /\ pc' = IF res.outcome # "ok" THEN "done" ELSE "solved"
    /\ opt_written' = {}
    /\ UNCHANGED <<store_vars, req, new_event, submit, db_call, finder_vars>>

\* the loop of optimise_events over the list run_ILP_optimiser returned
PassWrite ==
    /\ pc = "solved"
    /\ LET w == EditModified(db, gc, opt_events, 1, {})
       IN  /\ db' = w.db
           /\ gc' = w.gc
           /\ outcome' = w.outcome
           /\ opt_written' = w.written
    /\ opt_io' = opt_io \o LoopAccesses(db, gc, opt_events, 1)
    /\ pc' = "done"
    /\ UNCHANGED <<next_id, next_gid, req, new_event, opt_before, opt_events,
                   opt_status, opt_objective, opt_x, opt_o, submit, db_call,
                   finder_vars>>

\* GET /events with a range, handled by another worker thread while the
\* add_event request is under way: sync_gc_to_db, then the range query
ConcurrentGetEvents(from_dt, to_dt) ==
    /\ pc \in {"submit_db", "submit_gc", "optimise", "solved"}
    /\ LET r == sync_gc_to_db(db, next_id, gc, from_dt, to_dt)
       IN  /\ db' = r.db
           /\ next_id' = r.next_id
           /\ db_call' = [op |-> "sync_gc_to_db", start_dt |-> from_dt, end_dt |-> to_dt,
                          added |-> r.added, edited |-> r.edited, deleted |-> r.deleted,
                          events |-> IF r.outcome = "ok"
                                     THEN get_events_in_date_range(r.db, from_dt, to_dt,
                                                                   "ALL", "START")
                                     ELSE <<>>]
    /\ UNCHANGED <<gc, next_gid, pc, req, new_event, outcome, opt_before, opt_events,
                   opt_status, opt_objective, opt_written, opt_x, opt_o, opt_io,
                   submit, finder_vars>>

NextConcurrent ==
    \/ \E event_json \in SyncRequests : SubmitDbAdd(event_json)
    \/ SubmitGcAdd
    \/ SubmitLink
    \/ PassSolve
    \/ PassWrite
    \/ \E from_dt, to_dt \in SyncTimes : ConcurrentGetEvents(from_dt, to_dt)
    \/ \E event_id \in 1..MaxSyncEvents : \E start_dt \in SyncTimes :
          CalendarMove(event_id, start_dt)
    \/ HandlerReturn

SpecConcurrent == InitHandlers /\ [][NextConcurrent]_vars

\* ------------------------------------------------------------------------
\* SpecEdit: RequestHandler.edit_event and del_event on events that were
\* added before, with the owner of the calendar removing entries in Google
\* Calendar between two requests
\* ------------------------------------------------------------------------
MaxEditRows == 2

EditTimes == {0, 15, 30}
EditDurations == {15, 30}

EditFixedRequests ==
    {ej \in [is_flexible : {FALSE}, summary : Summaries, start_time : EditTimes,
              end_time : EditTimes] :
        ej.start_time < ej.end_time}

EditFlexibleRequests ==
    {ej \in [is_flexible : {TRUE}, summary : Summaries, earliest_start : EditTimes,
              latest_end : EditTimes, duration_minutes : EditDurations] :
        ej.earliest_start < ej.latest_end}

EditRequests == EditFixedRequests \cup EditFlexibleRequests

\* Database.get_event_by_google_id
get_event_by_google_id(rows, google_id) ==
    LET found == RowsWithGoogleId(rows, google_id)
    IN  IF found = {}
        THEN [outcome |-> "ValueError", event |-> NoEvent]
        ELSE LET event_data == FirstRow(found)
             IN  [outcome |-> "ok",
                  event |-> IF ~event_data.is_flexible
                            THEN FixedEvent(event_data.summary, event_data.event_start_dt,
                                            event_data.event_end_dt, event_data.google_id)
                            ELSE FlexibleEvent(event_data.summary,
                                               event_data.event_start_dt,
                                               event_data.event_end_dt,
                                               event_data.valid_start_dt,
                                               event_data.valid_end_dt,
                                               event_data.google_id)]

\* GoogleCalendar.delete_event: the delete request (the entry stays known to
\* the calendar as cancelled)
gc_delete_event(cal, event) ==
    {IF c.id = event.google_id THEN [c EXCEPT !.status = "cancelled"] ELSE c : c \in cal}

\* EventManager.delete_event: Database.del_event, then GoogleCalendar.delete_event
em_delete_event(rows, cal, event) ==
    IF event_status(rows, event) = "NEW"
    THEN [db |-> rows, gc |-> cal, outcome |-> "ValueError"]
    ELSE IF ~event_exists(cal, event.google_id)
    THEN [db |-> db_del_event(rows, event), gc |-> cal, outcome |-> "ValueError"]
    ELSE [db |-> db_del_event(rows, event), gc |-> gc_delete_event(cal, event),
          outcome |-> "ok"]

\* the event is in the store and confirmed in the calendar under google_id
Present(rows, cal, google_id) ==
    /\ RowsWithGoogleId(rows, google_id) # {}
    /\ \E c \in cal : c.id = google_id /\ c.status = "confirmed"

\* RequestHandler.add_event, for the first MaxEditRows events
AddEditEvent(event_json) ==
    /\ next_gid <= MaxEditRows
    /\ AddEvent(event_json)

\* RequestHandler.edit_event up to its optimise_events call
EditEvent(google_id, updated_event_json) ==
    /\ pc = "idle"
    /\ next_gid <= MaxEditRows + 1
    /\ req' = updated_event_json
    /\ LET got == get_event_by_google_id(db, google_id)
           existing_event == got.event
           call == [op |-> "edit_event", google_id |-> google_id,
                    present |-> Present(db, gc, google_id),
                    branch |-> "none", em |-> "none", event |-> NoEvent,
                    new_google_id |-> NULL]
       IN  IF got.outcome # "ok"
           THEN /\ db_call' = call
                /\ outcome' = got.outcome
                /\ pc' = "done"
                /\ new_event' = NoEvent
                /\ UNCHANGED <<store_vars, finder_vars>>
           ELSE IF existing_event.is_flexible # updated_event_json.is_flexible
           THEN LET d == em_delete_event(db, gc, existing_event)
                    b == create_event_from_json(d.db, updated_event_json)
                IN  /\ db_call' = [call EXCEPT !.branch = "replace", !.em = d.outcome,
                                               !.event = existing_event,
                                               !.new_google_id = next_gid]
                    /\ IF d.outcome # "ok"
                       THEN /\ db' = d.db
                            /\ gc' = d.gc
                            /\ outcome' = d.outcome
                            /\ pc' = "done"
                            /\ new_event' = NoEvent
                            /\ UNCHANGED <<next_id, next_gid, finder_vars>>
                       ELSE /\ BuilderFinder(updated_event_json, b)
                            /\ new_event' = b.event
                            /\ IF b.outcome = "ok"
                               THEN /\ db' = update_google_id(
                                                d.db \cup {NewRow(next_id, b.event)},
                                                next_id, next_gid)
                                    /\ gc' = gc_add_event(d.gc, next_gid, b.event)
                                    /\ next_id' = next_id + 1
                                    /\ next_gid' = next_gid + 1
                                    /\ pc' = "optimise"
                                    /\ outcome' = "none"
                               ELSE /\ db' = d.db
                                    /\ gc' = d.gc
                                    /\ outcome' = b.outcome
                                    /\ pc' = "done"
                                    /\ UNCHANGED <<next_id, next_gid>>
           ELSE LET b == create_event_from_json(db, updated_event_json)
                    updated_event == [b.event EXCEPT !.google_id = google_id]
                    e == em_edit_event(db, gc, updated_event, TRUE)
                IN  /\ BuilderFinder(updated_event_json, b)
                    /\ UNCHANGED <<next_id, next_gid>>
                    /\ IF b.outcome # "ok"
                       THEN /\ db_call' = [call EXCEPT !.branch = "update"]
                            /\ outcome' = b.outcome
                            /\ pc' = "done"
                            /\ new_event' = NoEvent
                            /\ UNCHANGED <<db, gc>>
                       ELSE /\ db_call' = [call EXCEPT !.branch = "update",
                                                       !.em = e.outcome,
                                                       !.event = updated_event,
                                                       !.new_google_id = google_id]
                            /\ db' = e.db
                            /\ gc' = e.gc
                            /\ new_event' = updated_event
                            /\ IF e.outcome = "ok"
                               THEN /\ pc' = "optimise"
                                    /\ outcome' = "none"
                               ELSE /\ pc' = "done"
                                    /\ outcome' = e.outcome
    /\ UNCHANGED <<opt_before, opt_events, opt_status, opt_objective, opt_written,
                   opt_x, opt_o, opt_io, submit>>

\* RequestHandler.del_event
DelEvent(google_id) ==
    /\ pc = "idle"
    /\ LET got == get_event_by_google_id(db, google_id)
           d == em_delete_event(db, gc, got.event)
       IN  IF got.outcome # "ok"
           THEN /\ db_call' = [op |-> "del_event", google_id |-> google_id,
                               present |-> Present(db, gc, google_id),
                               em |-> "none", event |-> NoEvent]
                /\ outcome' = got.outcome
                /\ UNCHANGED <<db, gc>>
           ELSE /\ db_call' = [op |-> "del_event", google_id |-> google_id,
                               present |-> Present(db, gc, google_id),
                               em |-> d.outcome, event |-> got.event]
                /\ db' = d.db
                /\ gc' = d.gc
                /\ outcome' = d.outcome
    /\ pc' = "done"
    /\ UNCHANGED <<next_id, next_gid, req, new_event, opt_before, opt_events,
                   opt_status, opt_objective, opt_written, opt_x, opt_o, opt_io,
                   submit, finder_vars>>

\* the owner of the calendar removes an entry between two requests
CalendarRemoveIdle(event_id) ==
    /\ pc = "idle"
    /\ CalendarRemove(event_id)

NextEdit ==
    \/ \E event_json \in EditRequests : AddEditEvent(event_json)
    \/ \E google_id \in 1..MaxEditRows, updated_event_json \in EditRequests :
          EditEvent(google_id, updated_event_json)
    \/ \E google_id \in 1..MaxEditRows : DelEvent(google_id)
    \/ OptimiseEvents
    \/ HandlerReturn
    \/ \E event_id \in 1..MaxEditRows : CalendarRemoveIdle(event_id)

SpecEdit == InitHandlers /\ [][NextEdit]_vars

\* ------------------------------------------------------------------------
\* SpecGreedy: the two-pass greedy optimiser of src/main.py on a store of
\* events of one day (times in minutes after the day's midnight)
\* ------------------------------------------------------------------------
MaxGreedyTime == 4
MaxGreedyRows == 2

GreedyTimes == 0..MaxGreedyTime

\* the events the store is filled with: fixed events of positive length and
\* flexible events that lie inside their window
GreedyEvents ==
    {FixedEvent("a", s, e, NULL) : s \in GreedyTimes, e \in GreedyTimes} \cup
    {FlexibleEvent("a", s, e, vs, ve, NULL) :
        s \in GreedyTimes, e \in GreedyTimes, vs \in GreedyTimes, ve \in GreedyTimes}

GreedyInputs ==
    {e \in GreedyEvents :
        /\ e.start_dt < e.end_dt
        /\ e.valid_start_dt <= e.start_dt
        /\ e.end_dt <= e.valid_end_dt}

\* WHERE clause of Database.get_events in src/main.py: with a type filter the
\* clause reads "(is_flexible = ?) AND (start BETWEEN ...) OR ... OR ...", and
\* AND binds tighter than OR
MainInDateRange(r, from_dt, to_dt, event_type) ==
    \/ /\ \/ event_type = "ALL"
          \/ (event_type = "FIXED" /\ ~r.is_flexible)
          \/ (event_type = "FLEXIBLE" /\ r.is_flexible)
       /\ from_dt <= r.event_start_dt /\ r.event_start_dt <= to_dt
    \/ (r.event_start_dt <= from_dt /\ from_dt <= r.event_end_dt)
    \/ (r.event_start_dt <= to_dt /\ to_dt <= r.event_end_dt)

\* Database.get_events of src/main.py
main_get_events(rows, from_dt, to_dt, event_type, order_by) ==
    create_event_from_db_query(
        OrderRows({r \in rows : MainInDateRange(r, from_dt, to_dt, event_type)}, order_by))

\* fixed_events.append(e) followed by fixed_events.sort(key = start_dt): the
\* sort is stable, so e comes after the events of the same start
RECURSIVE InsertByStart(_, _)
InsertByStart(events, e) ==
    IF events = <<>> THEN <<e>>
    ELSE IF events[Len(events)].start_dt <= e.start_dt THEN Append(events, e)
    ELSE Append(InsertByStart(SubSeq(events, 1, Len(events) - 1), e), events[Len(events)])

RECURSIVE SortByStart(_)
SortByStart(events) ==
    IF events = <<>> THEN <<>>
    ELSE InsertByStart(SortByStart(SubSeq(events, 1, Len(events) - 1)), events[Len(events)])

\* FlexEventOptimiser.move_events of src/main.py from event number k on
RECURSIVE move_events(_, _, _, _, _)
move_events(flex_events, fixed_events, k, valid_events, invalid_events) ==
    IF k > Len(flex_events)
    THEN [valid |-> valid_events, invalid |-> invalid_events]
    ELSE LET event == flex_events[k]
             found == find_valid_slot(FlexSlotFinderNew(event.valid_start_dt,
                                          event.valid_end_dt, event_duration(event)),
                                      fixed_events)
             updated_event == FlexibleEvent(event.summary, found.ret[1], found.ret[2],
                                            event.valid_start_dt, event.valid_end_dt,
                                            event.google_id)
         IN  IF found.finder.no_clashes
             THEN move_events(flex_events,
                      SortByStart(Append(fixed_events,
                          FixedEvent(updated_event.summary, updated_event.start_dt,
                                     updated_event.end_dt, NULL))),
                      k + 1, Append(valid_events, updated_event), invalid_events)
             ELSE move_events(flex_events, fixed_events, k + 1, valid_events,
                              Append(invalid_events, updated_event))

\* Database.edit_event of src/main.py: the UPDATE runs whatever event_status
\* says and rewrites the window columns too
main_db_edit_event(rows, event) ==
    {IF r.google_id = event.google_id /\ event.google_id # NULL
     THEN [r EXCEPT !.summary = event.summary,
                    !.event_start_dt = event.start_dt,
                    !.event_end_dt = event.end_dt,
                    !.duration = event_duration(event),
                    !.valid_start_dt = event.valid_start_dt,
                    !.valid_end_dt = event.valid_end_dt]
     ELSE r : r \in rows}

\* the loop "for event in valid_events: em.edit_event(event)" from event
\* number k on; the patch of an event the calendar lacks raises HttpError
RECURSIVE WriteValid(_, _, _, _, _)
WriteValid(rows, cal, valid_events, k, written) ==
    IF k > Len(valid_events)
    THEN [db |-> rows, gc |-> cal, outcome |-> "ok", written |-> written]
    ELSE LET edited == main_db_edit_event(rows, valid_events[k])
             w == Append(written, valid_events[k])
         IN  IF ~event_exists(cal, valid_events[k].google_id)
             THEN [db |-> edited, gc |-> cal, outcome |-> "HttpError", written |-> w]
             ELSE WriteValid(edited, gc_edit_event(cal, valid_events[k]),
                             valid_events, k + 1, w)

\* FlexEventOptimiser.optimise_flex_events of src/main.py
optimise_flex_events(rows, cal, dt) ==
    LET cur_midnight == get_cur_midnight(dt)
        next_midnight == get_next_midnight(dt)
        fixed_events == main_get_events(rows, cur_midnight, next_midnight, "FIXED", "START")
        flex_events_st == main_get_events(rows, cur_midnight, next_midnight,
                                          "FLEXIBLE", "START")
        flex_events_et == main_get_events(rows, cur_midnight, next_midnight,
                                          "FLEXIBLE", "END")
        st == move_events(flex_events_st, fixed_events, 1, <<>>, <<>>)
        et == move_events(flex_events_et, fixed_events, 1, <<>>, <<>>)
        chosen == IF Len(st.valid) > Len(et.valid) THEN "START" ELSE "END"
        w == WriteValid(rows, cal, IF chosen = "START" THEN st.valid ELSE et.valid, 1, <<>>)
    IN  [op |-> "optimise_flex_events", rows |-> rows,
         fixed_events |-> fixed_events,
         flex_events_st |-> flex_events_st, flex_events_et |-> flex_events_et,
         valid_events_st |-> st.valid, invalid_events_st |-> st.invalid,
         valid_events_et |-> et.valid, invalid_events_et |-> et.invalid,
         chosen |-> chosen, written |-> w.written, outcome |-> w.outcome,
         db |-> w.db, gc |-> w.gc]

\* EventManager.submit_event of src/main.py for an event the store lacks
GreedySubmit(event) ==
    /\ pc = "idle"
    /\ Cardinality(db) < MaxGreedyRows
    /\ db' = update_google_id(db \cup {NewRow(next_id, event)}, next_id, next_gid)
    /\ gc' = gc_add_event(gc, next_gid, event)
    /\ next_id' = next_id + 1
    /\ next_gid' = next_gid + 1
    /\ db_call' = NoCall
    /\ UNCHANGED <<pc, req, new_event, outcome, opt_before, opt_events, opt_status,
                   opt_objective, opt_written, opt_x, opt_o, opt_io, submit,
                   finder_vars>>

\* FlexEventOptimiser().optimise_flex_events(dt) for the day of the store
GreedyOptimise ==
    /\ pc = "idle"
    /\ db # {}
    /\ LET r == optimise_flex_events(db, gc, 0)
       IN  /\ db' = r.db
           /\ gc' = r.gc
           /\ db_call' = [r EXCEPT !.db = {}, !.gc = {}]
    /\ UNCHANGED <<next_id, next_gid, pc, req, new_event, outcome, opt_before,
                   opt_events, opt_status, opt_objective, opt_written, opt_x, opt_o,
                   opt_io, submit, finder_vars>>

NextGreedy ==
    \/ \E event \in GreedyInputs : GreedySubmit(event)
    \/ GreedyOptimise

SpecGreedy == InitHandlers /\ [][NextGreedy]_vars

\* ------------------------------------------------------------------------
\* SpecFinder: construct a finder, call find_valid_slot on it
\* ------------------------------------------------------------------------
InitFinder ==
    /\ InitStore
    /\ InitHandler
    /\ slot_finder = NoFinder
    /\ sf_op = "none"
    /\ sf_args = NoArgs
    /\ sf_raised = FALSE
    /\ sf_events = <<>>
    /\ sf_ret = NoTuple
    /\ sf_calls = 0

FinderConstruct(valid_start_dt, valid_end_dt, duration) ==
    /\ sf_op = "none"
    /\ sf_op' = "init"
    /\ sf_args' = [valid_start_dt |-> valid_start_dt,
                   valid_end_dt |-> valid_end_dt,
                   duration |-> duration]
    /\ sf_raised' = FlexSlotFinderRaises(valid_start_dt, valid_end_dt, duration)
    /\ slot_finder' = IF FlexSlotFinderRaises(valid_start_dt, valid_end_dt, duration)
                      THEN NoFinder
                      ELSE FlexSlotFinderNew(valid_start_dt, valid_end_dt, duration)
    /\ sf_events' = <<>>
    /\ sf_ret' = NoTuple
    /\ sf_calls' = 0
    /\ UNCHANGED <<store_vars, handler_vars>>

\* variant: the scan consumes the list it walks (pops the first event)
FinderFind_PopsEvents(events) ==
    /\ slot_finder # NoFinder
    /\ sf_op \in {"init", "idle"}
    /\ sf_calls < MaxFinderCalls
    /\ sf_calls' = sf_calls + 1
    /\ LET r == find_valid_slot(slot_finder, events)
       IN  /\ slot_finder' = r.finder
           /\ sf_ret' = r.ret
    /\ sf_op' = "find"
    /\ sf_args' = [valid_start_dt |-> sf_args.valid_start_dt,
                   valid_end_dt |-> sf_args.valid_end_dt,
                   duration |-> sf_args.duration,
                   events |-> events]
    /\ sf_events' = IF events = <<>> THEN events ELSE Tail(events)
    /\ UNCHANGED <<sf_raised, store_vars, handler_vars>>

\* the loop only indexes the list and reads the window and the duration:
\* the list the caller holds after the call is the one it passed
FinderFind(events) ==
    /\ slot_finder # NoFinder
    /\ sf_op \in {"init", "idle"}
    /\ sf_calls < MaxFinderCalls
    /\ sf_calls' = sf_calls + 1
    /\ LET r == find_valid_slot(slot_finder, events)
       IN  /\ slot_finder' = r.finder
           /\ sf_ret' = r.ret
    /\ sf_op' = "find"
    /\ sf_args' = [valid_start_dt |-> sf_args.valid_start_dt,
                   valid_end_dt |-> sf_args.valid_end_dt,
                   duration |-> sf_args.duration,
                   events |-> events]
    /\ sf_events' = events
    /\ UNCHANGED <<sf_raised, store_vars, handler_vars>>

\* the call has returned: the caller has taken the tuple and dropped its list
FinderReturn ==
    /\ sf_op = "find"
    /\ sf_op' = "idle"
    /\ sf_events' = <<>>
    /\ sf_ret' = NoTuple
    /\ sf_args' = [valid_start_dt |-> sf_args.valid_start_dt,
                   valid_end_dt |-> sf_args.valid_end_dt,
                   duration |-> sf_args.duration]
    /\ UNCHANGED <<slot_finder, sf_raised, sf_calls, store_vars, handler_vars>>

NextFinder ==
    \/ \E vs \in FinderTimes, ve \in FinderTimes, d \in FinderDurations :
          FinderConstruct(vs, ve, d)
    \/ \E events \in FinderEventLists : FinderFind(events)
    \/ FinderReturn

SpecFinder == InitFinder /\ [][NextFinder]_vars

\* ------------------------------------------------------------------------
\* Slot Finder properties
\* ------------------------------------------------------------------------

\* two half-open intervals [s1, e1) and [s2, e2) overlap
Overlaps(s1, e1, s2, e2) == s1 < e2 /\ s2 < e1

\* a placement starting at p is valid for finder f against events
ValidPlacement(f, events, p) ==
    /\ f.valid_start_dt <= p
    /\ p + f.duration <= f.valid_end_dt
    /\ \A k \in 1..Len(events) :
          ~Overlaps(p, p + f.duration, events[k].start_dt, events[k].end_dt)

PlacementStarts == (0 - 2)..(MaxFinderTime + 2)

FinderCalled == sf_op = "find"

\* the input the contract of section 4.1 asks for: chronologically ordered,
\* pairwise non-overlapping occupied intervals
ChronologicalInput(events) ==
    \A k \in 1..(Len(events) - 1) : events[k].end_dt <= events[k + 1].start_dt

\* C1 (Slot Finder soundness): whenever a find_valid_slot call reports found,
\* the returned (start, end) lies inside [valid_start, valid_end], has length
\* duration and overlaps none of the input events.  Stated here for the
\* narrowest case: the first call on a finder, a positive duration and a
\* chronologically ordered, non-overlapping input.
C1_Soundness ==
    (/\ FinderCalled
     /\ sf_calls = 1
     /\ slot_finder.duration > 0
     /\ ChronologicalInput(sf_events)
     /\ slot_finder.no_clashes) =>
        /\ sf_ret[2] - sf_ret[1] = slot_finder.duration
        /\ ValidPlacement(slot_finder, sf_events, sf_ret[1])

\* C2 (Slot Finder earliness): whenever find_valid_slot reports found, no
\* valid placement starts strictly earlier than the returned start.
C2_Earliness ==
    (FinderCalled /\ slot_finder.no_clashes) =>
        \A p \in PlacementStarts :
            ValidPlacement(slot_finder, sf_events, p) => sf_ret[1] <= p

C2_Witness ==
    /\ FinderCalled
    /\ slot_finder.no_clashes
    /\ Len(sf_events) = 2
    /\ sf_ret[1] > slot_finder.valid_start_dt
    /\ ValidPlacement(slot_finder, sf_events, sf_ret[1])
    /\ \E p \in PlacementStarts :
          p > sf_ret[1] /\ ValidPlacement(slot_finder, sf_events, p)

\* C3 (Slot Finder completeness): a find_valid_slot call reports found if and
\* only if a valid placement exists.  Stated here for the narrowest case: the
\* first call on a finder, a positive duration and a chronologically
\* ordered, non-overlapping input.
C3_Completeness ==
    (/\ FinderCalled
     /\ sf_calls = 1
     /\ slot_finder.duration > 0
     /\ ChronologicalInput(sf_events)) =>
        (slot_finder.no_clashes <=>
            \E p \in PlacementStarts : ValidPlacement(slot_finder, sf_events, p))

\* no gap scanned by the loop admits the duration
NoGapAdmits(f, events) ==
    \A i \in 0..Len(events) :
        LET gapStart == IF i = 0 THEN f.valid_start_dt ELSE events[i].end_dt
            gapBoundary == IF i = Len(events) THEN f.valid_end_dt ELSE events[i + 1].start_dt
        IN  ~(gapStart + f.duration <= gapBoundary /\ gapStart + f.duration <= f.valid_end_dt)

\* C4 (fallback): a find_valid_slot call in which no gap admits the duration
\* returns exactly (valid_start, valid_start + duration) and does not set the
\* found flag: it stays as it was, which is false on a finder that has not
\* accepted a candidate before.
C4_Fallback ==
    [][(sf_calls' = sf_calls + 1 /\ NoGapAdmits(slot_finder, sf_events')) =>
          /\ sf_ret' = <<slot_finder.valid_start_dt,
                         slot_finder.valid_start_dt + slot_finder.duration>>
          /\ slot_finder'.no_clashes = slot_finder.no_clashes
          /\ (sf_calls = 0 => ~slot_finder'.no_clashes)]_vars

C4_Witness ==
    /\ FinderCalled
    /\ sf_calls = 1
    /\ Len(sf_events) = 2
    /\ NoGapAdmits(slot_finder, sf_events)
    /\ ~slot_finder.no_clashes
    /\ sf_ret = <<slot_finder.valid_start_dt,
                  slot_finder.valid_start_dt + slot_finder.duration>>

\* C5 (InvalidWindow): the constructor raises exactly when
\* valid_start >= valid_end or duration > valid_end - valid_start; when it
\* raises no finder exists and nothing has been scanned; a duration equal to
\* the window length is accepted.
C5_InvalidWindow ==
    (sf_args # NoArgs) =>
        /\ sf_raised <=> (\/ sf_args.valid_start_dt >= sf_args.valid_end_dt
                          \/ sf_args.duration > sf_args.valid_end_dt - sf_args.valid_start_dt)
        /\ sf_raised => (slot_finder = NoFinder /\ sf_calls = 0 /\ sf_op = "init")
        /\ ~sf_raised => /\ slot_finder # NoFinder
                         /\ slot_finder.valid_start_dt = sf_args.valid_start_dt
                         /\ slot_finder.valid_end_dt = sf_args.valid_end_dt
                         /\ slot_finder.duration = sf_args.duration

\* a construction with a duration equal to the window length went through
C5_Witness ==
    /\ sf_op = "init"
    /\ ~sf_raised
    /\ sf_args.duration = sf_args.valid_end_dt - sf_args.valid_start_dt
    /\ slot_finder # NoFinder

\* ------------------------------------------------------------------------
\* Event builder properties
\* ------------------------------------------------------------------------

\* the running handler is add_event and it has called its builder
BuilderCalled == pc # "idle"

\* C6 (NoAvailableSlot): when the Slot Finder used for a requested flexible
\* event reports found = false, create_flexible_event exits (SystemExit,
\* status 1), no event object is produced, and neither the store nor the
\* calendar gains anything.
C6_NoAvailableSlot ==
    [][(/\ pc = "idle"
        /\ pc' # "idle"
        /\ slot_finder' # NoFinder
        /\ ~slot_finder'.no_clashes) =>
          /\ outcome' = "SystemExit"
          /\ new_event' = NoEvent
          /\ pc' = "done"
          /\ db' = db
          /\ gc' = gc
          /\ next_id' = next_id
          /\ next_gid' = next_gid]_vars

\* a flexible request met a finder that scanned stored events and found no gap
C6_Witness ==
    /\ pc = "done"
    /\ req.is_flexible
    /\ slot_finder # NoFinder
    /\ ~slot_finder.no_clashes
    /\ Len(sf_events) >= 1
    /\ outcome = "SystemExit"
    /\ db # {}

\* a stored row whose interval [start, end] meets the window [from_dt, to_dt]
IntersectsWindow(r, from_dt, to_dt) ==
    r.event_start_dt <= to_dt /\ from_dt <= r.event_end_dt

\* the rows that were in the store before the running handler added its own
RowsBeforeRequest == {r \in db : r.id < next_id - 1}

\* C7 (created flexible event): a flexible event returned by
\* create_flexible_event carries the requested window as valid_start /
\* valid_end, the slot returned by the Slot Finder as start / end, and
\* [start, end) overlaps no event that the store already held and whose
\* interval meets the requested window.  Stated for the narrowest case: a
\* positive duration and stored events that all have start < end.
C7_CreatedFlexible ==
    (/\ pc = "optimise"
     /\ new_event.is_flexible
     /\ req.duration_minutes > 0
     /\ \A r \in RowsBeforeRequest : r.event_start_dt < r.event_end_dt) =>
        /\ new_event.valid_start_dt = req.earliest_start
        /\ new_event.valid_end_dt = req.latest_end
        /\ <<new_event.start_dt, new_event.end_dt>> = sf_ret
        /\ \A r \in RowsBeforeRequest :
              IntersectsWindow(r, req.earliest_start, req.latest_end) =>
                  ~Overlaps(new_event.start_dt, new_event.end_dt,
                            r.event_start_dt, r.event_end_dt)

\* the request asks for an interval of positive length
PositiveLength(event_json) ==
    IF event_json.is_flexible
    THEN event_json.duration_minutes > 0
    ELSE event_json.start_time < event_json.end_time

\* C8 (start < end): every event returned by create_fixed_event or
\* create_flexible_event has start < end; a request whose end is not after
\* its start, or whose duration is not positive, is rejected and yields no
\* event.
C8_StartBeforeEnd ==
    BuilderCalled =>
        /\ (new_event # NoEvent => new_event.start_dt < new_event.end_dt)
        /\ (~PositiveLength(req) =>
               new_event = NoEvent /\ outcome \in {"ValueError", "SystemExit"})

\* ------------------------------------------------------------------------
\* Optimisation pass properties
\* ------------------------------------------------------------------------

\* the event objects alive in the running handler
EventsInMemory ==
    {opt_events[k] : k \in 1..Len(opt_events)}
        \cup (IF new_event = NoEvent THEN {} ELSE {new_event})

\* C9 (fixed window): in every reachable state, also after an optimisation
\* pass has decoded its placements, every fixed event has valid_start = start
\* and valid_end = end, as an object in memory and as a row of the store.
\* Stated for the fixed events of positive length.
C9_FixedWindow ==
    /\ \A e \in EventsInMemory :
          (~e.is_flexible /\ event_duration(e) > 0) =>
              (e.valid_start_dt = e.start_dt /\ e.valid_end_dt = e.end_dt)
    /\ \A r \in db :
          (~r.is_flexible /\ r.duration > 0) =>
              (r.valid_start_dt = r.event_start_dt /\ r.valid_end_dt = r.event_end_dt)

\* C10 (fixed events are outside the pass): an optimisation pass
\* (run_ILP_optimiser followed by optimise_events) builds its model over the
\* flexible events of the day only and changes the start or end of no fixed
\* event, whatever its start minute and duration.  Stated as the effect the
\* claim promises, for the fixed events of positive length: the pass leaves
\* their start and end as they were, in the objects it read and in the rows
\* of the store.
C10_FixedUntouched ==
    [][pc = "optimise" =>
          /\ \A k \in 1..Len(opt_before') :
                (~opt_before'[k].is_flexible /\ event_duration(opt_before'[k]) > 0) =>
                    /\ opt_events'[k].start_dt = opt_before'[k].start_dt
                    /\ opt_events'[k].end_dt = opt_before'[k].end_dt
          /\ \A r \in db :
                (~r.is_flexible /\ r.duration > 0) =>
                    \E q \in db' : /\ q.id = r.id
                                   /\ q.event_start_dt = r.event_start_dt
                                   /\ q.event_end_dt = r.event_end_dt]_vars

\* the last pass of the running handler ran to its end
PassDone == pc \in {"done", "again"} /\ opt_status # "none"

\* event e lies inside its own permitted window
InsideWindow(e) == e.valid_start_dt <= e.start_dt /\ e.end_dt <= e.valid_end_dt

\* the pass gave event number k a start or end other than the one it read
Relocated(k) ==
    \/ opt_events[k].start_dt # opt_before[k].start_dt
    \/ opt_events[k].end_dt # opt_before[k].end_dt

\* C11 (window containment): after an optimisation pass every relocated
\* flexible event lies fully inside its own permitted window,
\* valid_start <= start and end <= valid_end, also for windows and durations
\* that are no multiples of the slot length.  Stated for a pass whose solver
\* reported Optimal and for flexible events of positive duration.
C11_InsideWindow ==
    (PassDone /\ outcome = "ok" /\ opt_status = "Optimal") =>
        \A k \in 1..Len(opt_events) :
            (/\ opt_events[k].is_flexible
             /\ event_duration(opt_events[k]) > 0
             /\ Relocated(k)) => InsideWindow(opt_events[k])

\* the day the pass read holds flexible events of positive duration only
FlexibleDay ==
    \A k \in 1..Len(opt_before) :
        opt_before[k].is_flexible /\ event_duration(opt_before[k]) > 0

\* starts tried for a joint placement
JointStarts == {0, 5, 10, 15}

\* the events of the list can be placed inside their windows with pairwise
\* disjoint intervals
AdmitsDisjointPlacement(events) ==
    \E st \in [1..Len(events) -> JointStarts] :
        /\ \A k \in 1..Len(events) :
              /\ events[k].valid_start_dt <= st[k]
              /\ st[k] + event_duration(events[k]) <= events[k].valid_end_dt
        /\ \A i, j \in 1..Len(events) :
              i < j => ~Overlaps(st[i], st[i] + event_duration(events[i]),
                                 st[j], st[j] + event_duration(events[j]))

\* the intervals [start, end) of the events of the list are pairwise disjoint
PairwiseDisjoint(events) ==
    \A i, j \in 1..Len(events) :
        i < j => ~Overlaps(events[i].start_dt, events[i].end_dt,
                           events[j].start_dt, events[j].end_dt)

\* C12 (objective 0): when the flexible events of the day have windows that
\* admit a pairwise non-overlapping joint placement, the objective value of
\* the pass is 0 and the decoded intervals [start, end) are pairwise disjoint.
C12_DisjointWhenPossible ==
    (/\ PassDone
     /\ outcome = "ok"
     /\ FlexibleDay
     /\ AdmitsDisjointPlacement(opt_before)) =>
        /\ opt_status = "Optimal"
        /\ opt_objective = 0
        /\ PairwiseDisjoint(opt_events)

\* the number of pairs of events of the list, placed at the given starts,
\* whose intervals [start, start + duration) overlap
OverlappingPairs(events, starts) ==
    Cardinality({pr \in (1..Len(events)) \X (1..Len(events)) :
        /\ pr[1] < pr[2]
        /\ Overlaps(starts[pr[1]], starts[pr[1]] + event_duration(events[pr[1]]),
                    starts[pr[2]], starts[pr[2]] + event_duration(events[pr[2]]))})

\* the starts, on slot boundaries of the day, that keep event e inside its
\* window
WindowSlotStarts(e) ==
    {get_cur_midnight(e.start_dt) + convert_slot_to_time(t) : t \in 0..(num_slots - 1)}
        \cap {st \in e.valid_start_dt..(e.valid_end_dt - event_duration(e)) : TRUE}

\* every assignment of such starts to the events of the list
RECURSIVE WindowAssignments(_, _)
WindowAssignments(events, n) ==
    IF n = 0 THEN {<<>>}
    ELSE {Append(sts, st) : sts \in WindowAssignments(events, n - 1),
                            st \in WindowSlotStarts(events[n])}

\* C13 (fewest overlapping pairs): the placement a pass decodes has the
\* fewest pairs of overlapping intervals: no assignment of start slots that
\* keeps every event inside its window has fewer.  Stated for a day of
\* flexible events of positive duration and a solver that reported Optimal.
C13_FewestOverlaps ==
    (/\ PassDone
     /\ outcome = "ok"
     /\ opt_status = "Optimal"
     /\ FlexibleDay) =>
        \A sts \in WindowAssignments(opt_before, Len(opt_before)) :
            OverlappingPairs(opt_events,
                             [k \in 1..Len(opt_events) |-> opt_events[k].start_dt])
                <= OverlappingPairs(opt_before, sts)

\* C14 (idempotence): a second optimisation pass on the same day, with no
\* other change in between, decodes for every event the placement of the
\* first pass and writes nothing to the store and patches nothing in the
\* calendar.
C14_Idempotent ==
    [][(pc = "done" /\ pc' = "again") =>
          /\ opt_events' = opt_events
          /\ opt_written' = {}
          /\ db' = db
          /\ gc' = gc]_vars

\* the google ids of the events the pass of this step decoded to a start or
\* end other than the stored one
RelocatedIds ==
    {opt_events'[k].google_id : k \in {j \in 1..Len(opt_events') :
        \/ opt_events'[j].start_dt # opt_before'[j].start_dt
        \/ opt_events'[j].end_dt # opt_before'[j].end_dt}}

C16_PassKeepsEvents ==
    [][(pc = "optimise" /\ pc' = "done") =>
          /\ {r.id : r \in db'} = {r.id : r \in db}
          /\ {c.id : c \in gc'} = {c.id : c \in gc}
          /\ \A r \in db : \A q \in db' :
                q.id = r.id =>
                    /\ q.google_id = r.google_id
                    /\ q.summary = r.summary
                    /\ q.is_flexible = r.is_flexible
                    /\ q.valid_start_dt = r.valid_start_dt
                    /\ q.valid_end_dt = r.valid_end_dt
          /\ \A c \in gc : \A d \in gc' : d.id = c.id => d.summary = c.summary]_vars

\* C16 witness: a finished pass over at least two stored events that rewrote
\* the start of one of them in the store
C16_Witness ==
    /\ PassDone
    /\ outcome = "ok"
    /\ Len(opt_events) >= 2
    /\ \E k \in 1..Len(opt_events) :
          /\ opt_events[k].start_dt # opt_before[k].start_dt
          /\ \E r \in db : /\ r.google_id = opt_events[k].google_id
                           /\ r.event_start_dt = opt_events[k].start_dt

\* C17 (solver failure): when the solver reports infeasibility (it has no
\* optimal integral assignment to return), the optimisation pass ends in an
\* OptimizationFailed error, writes nothing to the store or the calendar and
\* changes no event's start or end.
C17_OptimizationFailed ==
    [][(pc = "optimise" /\ pc' = "done" /\ opt_status' = "Infeasible") =>
          /\ outcome' = "OptimizationFailed"
          /\ opt_events' = opt_before'
          /\ db' = db
          /\ gc' = gc]_vars

\* C18 (all-or-nothing relocation): when a store write or a calendar patch
\* fails for one event during an optimisation pass (for example the calendar
\* no longer has the event), no relocation of that pass is left applied:
\* the store and the calendar are as they were before the pass.
C18_AllOrNothing ==
    [][(/\ \/ (pc = "optimise" /\ pc' = "done")
           \/ (pc = "done" /\ pc' = "again")
        /\ outcome' = "ValueError") =>
          /\ db' = db
          /\ gc' = gc]_vars

\* the rows of the store that hold event e: the rows with e's google_id; for
\* an event without google id, the rows add_event(e) inserts
RowsOfEvent(rows, e) ==
    {r \in rows :
        /\ r.google_id = e.google_id
        /\ e.google_id = NULL =>
              /\ r.summary = e.summary
              /\ r.is_flexible = e.is_flexible
              /\ r.event_start_dt = e.start_dt
              /\ r.event_end_dt = e.end_dt
              /\ r.valid_start_dt = e.valid_start_dt
              /\ r.valid_end_dt = e.valid_end_dt}

\* row r has the summary, start and end of event e
SameMetadata(r, e) ==
    /\ r.summary = e.summary
    /\ r.event_start_dt = e.start_dt
    /\ r.event_end_dt = e.end_dt

\* C19 (event_status): after any sequence of add_event, edit_event and
\* del_event, Database.event_status(e) returns NEW iff the store has no row
\* with e's google_id, UNCHANGED iff it has such a row whose summary, start
\* and end all equal e's, and MODIFIED iff it has such a row and at least
\* one of summary, start, end differs.
C19_EventStatus ==
    db_call.op = "event_status" =>
        LET e == db_call.event
            found == RowsOfEvent(db, e)
        IN  /\ db_call.status = "NEW" <=> found = {}
            /\ db_call.status = "UNCHANGED" <=> \E r \in found : SameMetadata(r, e)
            /\ db_call.status = "MODIFIED" <=> \E r \in found : ~SameMetadata(r, e)

\* C20 (add_event): Database.add_event on an event that is already in the
\* store raises ValueError and inserts no row; on an event that is not, it
\* inserts exactly one row with the event's summary, kind, start, end,
\* duration, window and google_id; so the store never holds two rows for
\* the same event.
C20_AddEvent ==
    [][db_call'.op = "add_event" =>
          LET e == db_call'.event
          IN  /\ IF RowsOfEvent(db, e) # {}
                 THEN /\ db_call'.outcome = "ValueError"
                      /\ db' = db
                 ELSE /\ db_call'.outcome = "ok"
                      /\ \E r \in db' \ db :
                            /\ db' = db \cup {r}
                            /\ r = NewRow(r.id, e)
              /\ Cardinality(RowsOfEvent(db', e)) <= 1]_vars

\* C21 (del_event): Database.del_event on an event with no row in the store
\* raises ValueError and leaves the store unchanged; on an event that has a
\* row it removes every row with that google_id and no other row.
C21_DelEvent ==
    [][db_call'.op = "del_event" =>
          LET e == db_call'.event
          IN  IF RowsOfEvent(db, e) = {}
              THEN /\ db_call'.outcome = "ValueError"
                   /\ db' = db
              ELSE /\ db_call'.outcome = "ok"
                   /\ db' = {r \in db : r.google_id # e.google_id}]_vars

\* C22 (edit_event): Database.edit_event raises ValueError and changes no
\* event data when the event is not in the store or is stored with the same
\* summary, start and end; otherwise the summary, start, end and duration of
\* the stored row become those of the argument, and no other row changes.
C22_EditEvent ==
    [][db_call'.op = "edit_event" =>
          LET e == db_call'.event
              found == RowsOfEvent(db, e)
          IN  IF found = {} \/ \A r \in found : SameMetadata(r, e)
              THEN /\ db_call'.outcome = "ValueError"
                   /\ db' = db
              ELSE /\ db_call'.outcome = "ok"
                   /\ {q.id : q \in db'} = {r.id : r \in db}
                   /\ \A r \in db : \A q \in db' :
                         q.id = r.id =>
                            IF r \in found
                            THEN /\ SameMetadata(q, e)
                                 /\ q.duration = event_duration(e)
                                 /\ q.google_id = r.google_id
                                 /\ q.is_flexible = r.is_flexible
                            ELSE q = r]_vars

\* C22 witness: edit_event has rewritten the row of its argument, beside
\* another row, and the stored duration is the argument's
C22_Witness ==
    /\ db_call.op = "edit_event"
    /\ db_call.outcome = "ok"
    /\ Cardinality(db) >= 2
    /\ \E r \in db : /\ r.google_id = db_call.event.google_id
                     /\ SameMetadata(r, db_call.event)
                     /\ r.duration = event_duration(db_call.event)
                     /\ r.duration = 30

\* the call recorded in db_call is a range query that returned a list
QueryReturned ==
    /\ db_call.op = "get_events_in_date_range"
    /\ db_call.outcome = "ok"

\* row r is of the requested type
OfType(r, event_type) ==
    \/ event_type = "ALL"
    \/ (event_type = "FIXED" /\ ~r.is_flexible)
    \/ (event_type = "FLEXIBLE" /\ r.is_flexible)

\* the closed intervals [start, end] of row r and [from_dt, to_dt] share a point
Intersects(r, from_dt, to_dt) ==
    r.event_start_dt <= to_dt /\ from_dt <= r.event_end_dt

\* the positions of the returned list that hold the event of row r
PositionsOf(r) ==
    {k \in 1..Len(db_call.events) :
        /\ db_call.events[k].google_id = r.google_id
        /\ db_call.events[k].summary = r.summary
        /\ db_call.events[k].is_flexible = r.is_flexible
        /\ db_call.events[k].start_dt = r.event_start_dt
        /\ db_call.events[k].end_dt = r.event_end_dt}

SyncDone ==
    /\ pc = "done"
    /\ db_call.op = "sync_gc_to_db"
    /\ outcome = "ok"

\* C24 (calendar sync): after sync_gc_to_db completes without error, every
\* current calendar event returned for the range has a store row with the
\* same google_id, summary, start and end, and no event the calendar reports
\* as cancelled has a store row: new events were added, changed ones edited,
\* cancelled ones deleted.
C24_SyncGcToDb ==
    SyncDone =>
        \A c \in gc :
            InCalendarRange(c, db_call.start_dt, db_call.end_dt) =>
                IF c.status = "cancelled"
                THEN \A r \in db : r.google_id # c.id
                ELSE \E r \in db : /\ r.google_id = c.id
                                   /\ r.summary = c.summary
                                   /\ r.event_start_dt = c.start_dt
                                   /\ r.event_end_dt = c.end_dt

\* C24 witness: one sync edited the row of a moved event and deleted the
\* row of a cancelled one
C24_Witness ==
    /\ SyncDone
    /\ db_call.edited # {}
    /\ db_call.deleted # {}

\* every stored flexible event lies in its window, which has room for it
FlexibleInWindow(rows) ==
    \A r \in rows :
        r.is_flexible =>
            /\ r.valid_start_dt <= r.event_start_dt
            /\ r.event_end_dt <= r.valid_end_dt
            /\ r.valid_end_dt - r.valid_start_dt >= r.duration

\* C25 (flexible events stay in their window): in every reachable state of
\* the store, after any sequence of add, user edit, calendar sync and
\* optimisation pass, every stored flexible event satisfies
\* valid_start <= start, end <= valid_end and
\* valid_end - valid_start >= duration.  Stated for the calendar sync: a
\* sync that starts in a store where this holds ends in one where it holds.
C25_StoredFlexibleInWindow ==
    [][(pc = "idle" /\ db_call'.op = "sync_gc_to_db" /\ FlexibleInWindow(db)) =>
          FlexibleInWindow(db')]_vars

\* C26 (chronological input of the Slot Finder): the list
\* get_events_in_date_range(..., OrderBy.START) returns, which
\* create_flexible_event passes to the Slot Finder, is in chronological
\* order of event start: a.start <= b.start for consecutive entries a, b,
\* also when it holds flexible events whose start differs from their
\* valid_start.
C26_OrderedByStart ==
    (QueryReturned /\ db_call.order_by = "START" /\ db_call.event_type = "ALL") =>
        \A k \in 1..(Len(db_call.events) - 1) :
            db_call.events[k].start_dt <= db_call.events[k + 1].start_dt

\* the slots of the single-placement range [startSlot, endSlot - durationSlots]
\* of event number k of the list the pass read
PlacementRange(k) == PlacementSlots(preprocess_events(opt_before)[k])

\* C27 (single placement): in every solution that satisfies the model built
\* by run_ILP_optimiser each event has exactly one slot t of the whole day
\* with x[i, t] = 1, and that slot, the one the decoding loop keeps, lies in
\* the event's single-placement range [startSlot, endSlot - durationSlots].
C27_OneSlotInRange ==
    (PassDone /\ opt_status = "Optimal") =>
        \A k \in 1..Len(opt_before) :
            /\ Cardinality(opt_x[k]) = 1
            /\ opt_x[k] \subseteq PlacementRange(k)

\* the decoded intervals [start, end) of events number i and j overlap
DecodedOverlap(i, j) ==
    Overlaps(opt_events[i].start_dt, opt_events[i].end_dt,
             opt_events[j].start_dt, opt_events[j].end_dt)

\* C28 (overlap indicators): in the solution a pass decodes there is exactly
\* one indicator o[i, j] for every unordered pair of distinct events of the
\* day, and it is 1 if and only if the decoded intervals [start, end) of the
\* two events overlap in time, also for events shorter than one slot.
C28_IndicatorIffOverlap ==
    (PassDone /\ opt_status = "Optimal") =>
        /\ \A i, j \in 1..Len(opt_events) :
               i < j => Cardinality({<<i, j>>, <<j, i>>} \cap opt_o.pairs) = 1
        /\ \A pr \in opt_o.pairs :
               (pr \in opt_o.ones) <=> DecodedOverlap(pr[1], pr[2])


\* event e satisfies the event invariants: it ends after it starts, lies
\* inside its window, and the window has room for its duration
EventInvariants(e) ==
    /\ e.start_dt < e.end_dt
    /\ InsideWindow(e)
    /\ e.valid_end_dt - e.valid_start_dt >= event_duration(e)

\* C29 (feasibility): the model built for a day is always feasible: every
\* event the day's range query returned that satisfies the event invariants
\* has at least one slot in its single-placement range
\* [startSlot, endSlot - durationSlots], also when its window ends at the
\* next midnight or touches or crosses the day boundary; so a day of such
\* events is never reported Infeasible.
C29_AlwaysFeasible ==
    PassDone =>
        /\ \A k \in 1..Len(opt_before) :
               EventInvariants(opt_before[k]) => PlacementRange(k) # {}
        /\ (\A k \in 1..Len(opt_before) : EventInvariants(opt_before[k])) =>
               opt_status # "Infeasible"

\* C30 (duration and slot boundary): an optimisation pass preserves every
\* event's duration and places it on a slot boundary: after decoding,
\* end - start equals the event's duration before the pass, and the start's
\* minute of the day is t * precision for the slot t the decoding loop chose.
C30_DurationAndBoundary ==
    PassDone =>
        \A k \in 1..Len(opt_events) :
            /\ event_duration(opt_events[k]) = event_duration(opt_before[k])
            /\ opt_x[k] # {} =>
                  opt_events[k].start_dt % MinsInDay = SetMax(opt_x[k]) * Precision

\* a pass moved an event whose duration is no whole number of slots
C30_Witness ==
    /\ PassDone
    /\ \E k \in 1..Len(opt_events) :
          /\ opt_x[k] # {}
          /\ Relocated(k)
          /\ event_duration(opt_before[k]) % Precision # 0

\* position of the solve step among the requests of the last pass
SolveAt == CHOOSE n \in DOMAIN opt_io : opt_io[n].kind = "solve"

\* C31 (I/O around the solve): in one optimisation pass every read of the
\* store happens before the solve step and every write to the store or the
\* calendar happens after it: no read of either collaborator follows the
\* solve and no write precedes it.
C31_ReadSolveWrite ==
    (PassDone /\ \E n \in DOMAIN opt_io : opt_io[n].kind = "solve") =>
        \A n \in DOMAIN opt_io :
            /\ n < SolveAt => opt_io[n].kind = "read"
            /\ n > SolveAt => opt_io[n].kind = "write"

\* C32 (passes are serialised): while an optimisation pass started by an API
\* request is between its read of the day's events and its last write, no
\* other request handler reads or modifies that day's events: no
\* get-with-sync runs and the store changes by nothing but the pass's own
\* writes.
C32_PassExclusive ==
    [][(pc = "solved" /\ pc' = "solved") => (db_call' = db_call /\ db' = db)]_vars

\* C36 (one row per google id): when a get-events request runs concurrently
\* with an add-event request, at most one store row carries any given
\* non-null google_id once both have completed.
C36_OneRowPerGoogleId ==
    pc = "idle" =>
        \A r1, r2 \in db :
            (r1.google_id # NULL /\ r1.google_id = r2.google_id) => r1 = r2

\* optimise_flex_events has just run
GreedyDone == db_call.op = "optimise_flex_events"

\* the events of a list as a set of (position, event) pairs
Placed(events) == {<<k, events[k]>> : k \in 1..Len(events)}

\* every event of the valid list lies inside its window, has the duration of
\* the flexible event it was made from, and overlaps no fixed event and no
\* other event of the list
ValidListSound(valid_events, flex_events, fixed_events) ==
    \A p \in Placed(valid_events) :
        /\ InsideWindow(p[2])
        /\ \E k \in 1..Len(flex_events) :
              /\ flex_events[k].google_id = p[2].google_id
              /\ event_duration(flex_events[k]) = event_duration(p[2])
        /\ \A k \in 1..Len(fixed_events) :
              ~Overlaps(p[2].start_dt, p[2].end_dt,
                        fixed_events[k].start_dt, fixed_events[k].end_dt)
        /\ \A q \in Placed(valid_events) :
              q[1] # p[1] => ~Overlaps(p[2].start_dt, p[2].end_dt,
                                       q[2].start_dt, q[2].end_dt)

\* C34 (greedy placements are sound): every event that move_events returns
\* in its valid list lies inside its own window, keeps its duration, and
\* overlaps neither any fixed event of the day nor any other event in the
\* valid list, for fixed events given in start order and pairwise
\* non-overlapping.
C34_ValidListSound ==
    (GreedyDone /\ ChronologicalInput(db_call.fixed_events)) =>
        /\ ValidListSound(db_call.valid_events_st, db_call.flex_events_st,
                          db_call.fixed_events)
        /\ ValidListSound(db_call.valid_events_et, db_call.flex_events_et,
                          db_call.fixed_events)

\* the google ids of the events of a list
IdsOf(events) == {events[k].google_id : k \in 1..Len(events)}

\* the list holds the flexible events stored for the day, each once
DaysFlexibleEvents(events) ==
    /\ \A k \in 1..Len(events) : events[k].is_flexible
    /\ IdsOf(events) = {r.google_id : r \in {q \in db_call.rows : q.is_flexible}}
    /\ Len(events) = Cardinality(IdsOf(events))

\* the two runs of the Slot Finder go over the day's flexible events, one in
\* the order of their starts and one in the order of their ends
GreedyOrders ==
    /\ DaysFlexibleEvents(db_call.flex_events_st)
    /\ DaysFlexibleEvents(db_call.flex_events_et)
    /\ \A k \in 1..(Len(db_call.flex_events_st) - 1) :
          db_call.flex_events_st[k].start_dt <= db_call.flex_events_st[k + 1].start_dt
    /\ \A k \in 1..(Len(db_call.flex_events_et) - 1) :
          db_call.flex_events_et[k].end_dt <= db_call.flex_events_et[k + 1].end_dt

\* what is written is the valid list of an ordering that leaves no more
\* events unplaceable than the other
GreedyKeepsBetter ==
    \/ /\ db_call.written = db_call.valid_events_st
       /\ Len(db_call.invalid_events_st) <= Len(db_call.invalid_events_et)
    \/ /\ db_call.written = db_call.valid_events_et
       /\ Len(db_call.invalid_events_et) <= Len(db_call.invalid_events_st)

\* no event for which the kept ordering found no slot is written
GreedySkipsUnplaceable ==
    LET unplaceable == IF db_call.chosen = "START" THEN db_call.invalid_events_st
                       ELSE db_call.invalid_events_et
    IN  /\ IdsOf(db_call.written) \cap IdsOf(unplaceable) = {}
        /\ \A r \in db_call.rows :
              r.google_id \in IdsOf(unplaceable) => r \in db

\* C33 (two-pass greedy optimiser): optimise_flex_events runs the Slot
\* Finder over the day's flexible events once in start order and once in
\* end order, writes back the placements of the ordering that leaves fewer
\* events unplaceable, and never writes an event for which no slot was found.
C33_TwoPassGreedy ==
    GreedyDone => (GreedyOrders /\ GreedyKeepsBetter /\ GreedySkipsUnplaceable)
\* C35 (find_valid_slot leaves its inputs alone): across a find_valid_slot
\* call the list of occupied events the caller passed is the list it holds
\* afterwards (same length, same order, same start and end of every event), and
\* the finder's valid_start_dt, valid_end_dt and duration are what they were
\* before the call.
C35_InputsUnmodified ==
    [][(sf_calls' = sf_calls + 1) =>
          /\ sf_events' = sf_args'.events
          /\ slot_finder'.valid_start_dt = slot_finder.valid_start_dt
          /\ slot_finder'.valid_end_dt = slot_finder.valid_end_dt
          /\ slot_finder'.duration = slot_finder.duration]_vars

C35_Witness ==
    /\ sf_op = "find"
    /\ Len(sf_events) = 2
    /\ sf_events = sf_args.events
    /\ slot_finder.no_clashes
    /\ slot_finder.start_dt = sf_events[1].end_dt
    /\ sf_ret = <<slot_finder.start_dt, slot_finder.end_dt>>

\* C40 (the found flag is latched): a finder is constructed with no_clashes
\* false; a find_valid_slot call that accepts a candidate sets it; a call in
\* which no gap admits the duration returns the fallback and leaves no_clashes,
\* start_dt and end_dt as they were, so that no_clashes stays false up to the
\* first accepting call and true in every state after it, with start_dt/end_dt
\* at the last accepted slot.
C40_FoundLatched ==
    [][/\ (slot_finder = NoFinder /\ slot_finder' # NoFinder) => ~slot_finder'.no_clashes
       /\ (slot_finder # NoFinder) =>
             /\ slot_finder' # NoFinder
             /\ slot_finder.no_clashes => slot_finder'.no_clashes
             /\ (sf_calls' = sf_calls) => slot_finder' = slot_finder
             /\ (sf_calls' = sf_calls + 1 /\ ~NoGapAdmits(slot_finder, sf_events')) =>
                   /\ slot_finder'.no_clashes
                   /\ sf_ret' = <<slot_finder'.start_dt, slot_finder'.end_dt>>
             /\ (sf_calls' = sf_calls + 1 /\ NoGapAdmits(slot_finder, sf_events')) =>
                   /\ slot_finder'.no_clashes = slot_finder.no_clashes
                   /\ slot_finder'.start_dt = slot_finder.start_dt
                   /\ slot_finder'.end_dt = slot_finder.end_dt
                   /\ sf_ret' = <<slot_finder.valid_start_dt,
                                  slot_finder.valid_start_dt + slot_finder.duration>>]_vars

\* a second call that found no slot on a finder whose first call accepted one
C40_Witness ==
    /\ sf_op = "find"
    /\ sf_calls = 2
    /\ NoGapAdmits(slot_finder, sf_events)
    /\ slot_finder.no_clashes
    /\ slot_finder.start_dt # slot_finder.valid_start_dt
    /\ sf_ret = <<slot_finder.valid_start_dt,
                  slot_finder.valid_start_dt + slot_finder.duration>>
    /\ sf_ret # <<slot_finder.start_dt, slot_finder.end_dt>>

\* C39 (event_status frame): a Database.event_status call leaves the set of
\* rows and every row's summary, kind, start, end, duration, window and
\* google_id as they were; the only rows it writes to (their last_updated)
\* are rows with the queried google_id.
C39_EventStatusFrame ==
    [][db_call'.op = "event_status" =>
          /\ {r.id : r \in db'} = {r.id : r \in db}
          /\ \A r \in db : \A q \in db' :
                r.id = q.id =>
                    /\ q.summary = r.summary
                    /\ q.is_flexible = r.is_flexible
                    /\ q.event_start_dt = r.event_start_dt
                    /\ q.event_end_dt = r.event_end_dt
                    /\ q.duration = r.duration
                    /\ q.valid_start_dt = r.valid_start_dt
                    /\ q.valid_end_dt = r.valid_end_dt
                    /\ q.google_id = r.google_id
          /\ Cardinality(db') = Cardinality(db)
          /\ \A r \in db : r.id \in db_call'.touched =>
                r.google_id = db_call'.event.google_id]_vars

\* event_status answered MODIFIED and stamped a row, next to a row it left alone
C39_Witness ==
    /\ db_call.op = "event_status"
    /\ db_call.status = "MODIFIED"
    /\ db_call.touched # {}
    /\ \E r \in db : r.id \notin db_call.touched

\* the store carries event: a row has its google_id, and every such row has
\* its summary, start and end
StoreCarries(rows, event) ==
    /\ RowsWithGoogleId(rows, event.google_id) # {}
    /\ \A r \in RowsWithGoogleId(rows, event.google_id) :
          /\ r.summary = event.summary
          /\ r.event_start_dt = event.start_dt
          /\ r.event_end_dt = event.end_dt

\* the calendar carries event: a confirmed entry with its id, summary, start
\* and end
CalendarCarries(cal, event) ==
    \E c \in cal :
        /\ c.id = event.google_id
        /\ c.status = "confirmed"
        /\ c.summary = event.summary
        /\ c.start_dt = event.start_dt
        /\ c.end_dt = event.end_dt

\* the EventManager.edit_event call of RequestHandler.edit_event
EmEditCalled(call) ==
    call.op = "edit_event" /\ call.branch = "update" /\ call.em # "none"

\* the EventManager.delete_event call of RequestHandler.del_event
EmDeleteCalled(call) == call.op = "del_event" /\ call.em # "none"

\* C37 (store and calendar agree after EventManager.edit_event / delete_event):
\* when the call has returned or raised, either the store and the calendar
\* both carry the new state (the edited summary, start and end; or no event)
\* or both are as they were before the call.
C37_StoreCalendarAgree ==
    [][/\ EmEditCalled(db_call') =>
             \/ (db' = db /\ gc' = gc)
             \/ (StoreCarries(db', db_call'.event) /\ CalendarCarries(gc', db_call'.event))
       /\ EmDeleteCalled(db_call') =>
             \/ (db' = db /\ gc' = gc)
             \/ /\ RowsWithGoogleId(db', db_call'.google_id) = {}
                /\ ~\E c \in gc' : c.id = db_call'.google_id /\ c.status = "confirmed"]_vars

\* C38 (edit_event never loses an event): when a RequestHandler.edit_event
\* call on an event that was in the store and in the calendar has ended,
\* normally or with an error, the event is in the store and in the calendar,
\* under its google id or, after a delete and re-add, under the id of the
\* re-added event.
C38_EditKeepsEvent ==
    (pc = "done" /\ db_call.op = "edit_event" /\ db_call.present) =>
        \/ Present(db, gc, db_call.google_id)
        \/ (db_call.new_google_id # NULL /\ Present(db, gc, db_call.new_google_id))

====
